---- MODULE Spec2Model ----
(***************************************************************************)
(* A model of youfun/cloudflare-d1-go: the migration ordering rule         *)
(* (migrations/migration.go), the migration planner and executor           *)
(* (migrations/executor.go, migrations/source.go) running against a D1     *)
(* database reached through client.Query (client/pool.go,                  *)
(* utils/request.go),                                                      *)
(* the row cursor utils.Rows with its coercion convertAssign, the response *)
(* envelope utils.APIResponse, the migration parser                        *)
(* (migrations/parser.go), the Client and the ConnectionPool               *)
(* (client/pool.go) and the parameter conversion utils.ConvertParams.      *)
(***************************************************************************)
EXTENDS Integers, Sequences, FiniteSets, TLC

VARIABLES
  \* the migration executor and its database
  tableExists,  \* the ledger table has been created in the database
  ledger,       \* the ids of the ledger rows, in the order they were inserted
  run,          \* the frame of each ExecMax call
  prev,         \* what the most recent ExecMax call returned
  \* a call of Migration.Less or of sort.Sort(byId(...))
  call,
  \* a utils.Rows cursor and the caller using it
  rows,         \* Rows.rows
  columns,      \* Rows.columns
  current,      \* Rows.current
  closed,       \* Close has been called on the cursor
  nextCalls,    \* the number of calls of Rows.Next so far
  ret,          \* the operation called last on the cursor, the position it
                \* was called at and what it returned
  dest,         \* the destinations the last operation was given: their kinds,
                \* what they held before the call and what they hold after it
  \* a call of convertAssign
  conv,
  \* an APIResponse and the caller using it
  resp,         \* the envelope: success, errors, result
  hasRows,      \* the caller holds a cursor
  result,       \* the Result the last ToResult returned
  \* a call of ParseMigration
  parser,
  \* a Client, a ConnectionPool and the D1 service behind them
  service,      \* the names of the databases the account holds
  client,       \* the Client NewClient returned
  pool,         \* the ConnectionPool: connections, currentDB, maxCacheAge
  now,          \* the clock, in hours
  cret,         \* the operation called last on the client or the pool, its
                \* arguments, what it returned, the database its request went
                \* to, whether it used a cache entry and how old that was
  lastConn,     \* history: the name and the id of the last connect that
                \* succeeded and whose cache entry was not cleared since
  \* a call of ConvertParams
  params,
  \* history of the executor: a run was started while another was under way
  overlap,
  \* the goroutines inside a query operation of the pool
  inflight

execVars == <<tableExists, ledger, run, prev>>
callVars == <<call>>
rowsVars == <<rows, columns, current, closed, nextCalls, ret, dest>>
convVars == <<conv>>
respVars == <<resp, hasRows, result>>
parseVars == <<parser>>
connVars == <<service, client, pool, now, cret, lastConn>>
paramVars == <<params>>
raceVars == <<overlap>>
flightVars == <<inflight>>
restVars == <<connVars, paramVars, raceVars, flightVars>>

vars == <<execVars, callVars, rowsVars, convVars, respVars, parseVars, restVars>>

\* What the executor leaves alone.
nonExecVars == <<callVars, rowsVars, convVars, respVars, parseVars, restVars>>
\* What a call of the ordering leaves alone.
nonCallVars == <<execVars, rowsVars, convVars, respVars, parseVars, restVars>>
\* What the cursor leaves alone.
nonRowsVars == <<execVars, callVars, convVars, respVars, parseVars, restVars>>
\* What a call of convertAssign leaves alone.
nonConvVars == <<execVars, callVars, rowsVars, respVars, parseVars, restVars>>
\* What the operations on an APIResponse leave alone.
nonRespVars == <<execVars, callVars, convVars, parseVars, restVars>>
\* What a call of ParseMigration leaves alone.
nonParseVars == <<execVars, callVars, rowsVars, convVars, respVars, restVars>>

\* What the client and the pool leave alone.
nonConnVars ==
  <<execVars, callVars, rowsVars, convVars, respVars, parseVars, paramVars, raceVars,
    flightVars>>
\* What a call of ConvertParams leaves alone.
nonParamVars ==
  <<execVars, callVars, rowsVars, convVars, respVars, parseVars, connVars, raceVars,
    flightVars>>

\* No call of the ordering is under way.
NoPureCall ==
  [op |-> "none", m |-> "", other |-> "", in |-> <<>>, done |-> FALSE,
   less |-> FALSE, out |-> <<>>, cmp |-> <<>>]

CallIdle == call = NoPureCall

NoRet == [op |-> "none", at |-> -1, ok |-> FALSE, err |-> "nil"]

NoDest == [kind |-> "none", types |-> <<>>, old |-> <<>>, val |-> <<>>]

\* No cursor is in use.
RowsIdle ==
  /\ rows = <<>>
  /\ columns = <<>>
  /\ current = -1
  /\ closed = FALSE
  /\ nextCalls = 0
  /\ ret = NoRet
  /\ dest = NoDest

\* No APIResponse is in use.
NoResp == [success |-> TRUE, errors |-> <<>>, result |-> [kind |-> "none"]]

NoResult == [lastInsertId |-> 0, rowsAffected |-> 0, isNil |-> TRUE]

RespIdle ==
  /\ resp = NoResp
  /\ hasRows = FALSE
  /\ result = NoResult

\* No call of ParseMigration is under way.
NoParser == [pc |-> "idle"]

ParseIdle == parser = NoParser

(***************************************************************************)
(* Strings.  Go compares strings bytewise and the id pattern looks at      *)
(* single bytes, so an id is looked up as its byte sequence.               *)
(***************************************************************************)
Bytes ==
  [ s \in {"1_a", "2_b", "3_c", "10_x", "2_y", "02_y", "2", "alpha", "beta",
           "9223372036854775807_m", "9223372036854775808_a",
           "1\nz", "x1"} |->
    CASE s = "1_a"   -> <<49, 95, 97>>
      [] s = "2_b"   -> <<50, 95, 98>>
      [] s = "3_c"   -> <<51, 95, 99>>
      [] s = "10_x"  -> <<49, 48, 95, 120>>
      [] s = "2_y"   -> <<50, 95, 121>>
      [] s = "02_y"  -> <<48, 50, 95, 121>>
      [] s = "2"     -> <<50>>
      [] s = "alpha" -> <<97, 108, 112, 104, 97>>
      [] s = "beta"  -> <<98, 101, 116, 97>>
      [] s = "9223372036854775807_m" ->
           <<57,50,50,51,51,55,50,48,51,54,56,53,52,55,55,53,56,48,55,95,109>>
      [] s = "9223372036854775808_a" ->
           <<57,50,50,51,51,55,50,48,51,54,56,53,52,55,55,53,56,48,56,95,97>>
      [] s = "1\nz"  -> <<49, 10, 122>>
      [] s = "x1"    -> <<120, 49>> ]

\* The decimal digits of math.MaxInt64, the largest value ParseInt(v, 10, 64)
\* accepts.
MaxInt64Digits == <<57,50,50,51,51,55,50,48,51,54,56,53,52,55,55,53,56,48,55>>

IsDigit(c) == c \in 48..57

RECURSIVE BytesLess(_, _)
\* Go's s < t on strings: bytewise lexicographic, a proper prefix is smaller.
BytesLess(s, t) ==
  IF t = <<>> THEN FALSE
  ELSE IF s = <<>> THEN TRUE
  ELSE IF Head(s) # Head(t) THEN Head(s) < Head(t)
  ELSE BytesLess(Tail(s), Tail(t))

RECURSIVE DigitRun(_)
\* The longest run of decimal digits at the start of s (the group (\d+)).
DigitRun(s) ==
  IF s = <<>> \/ ~IsDigit(Head(s)) THEN <<>>
  ELSE <<Head(s)>> \o DigitRun(Tail(s))

RECURSIVE StripZeros(_)
StripZeros(d) ==
  IF d # <<>> /\ Head(d) = 48 THEN StripZeros(Tail(d)) ELSE d

(***************************************************************************)
(* int64 values.  A VersionInt is a non-negative int64; it is kept as its  *)
(* decimal digits without leading zeros (zero is the empty sequence), so   *)
(* that 19-digit values keep their exact value.                            *)
(***************************************************************************)
Int64Less(x, y) ==
  \/ Len(x) < Len(y)
  \/ Len(x) = Len(y) /\ BytesLess(x, y)

\* strconv.ParseInt(v, 10, 64) on a digit run: the value, or a range error
\* when it exceeds math.MaxInt64.
ParseInt(v) ==
  LET d == StripZeros(v)
  IN  IF Int64Less(MaxInt64Digits, d)
        THEN [err |-> TRUE,  value |-> MaxInt64Digits]
        ELSE [err |-> FALSE, value |-> d]

\* numberPrefixRegex.FindStringSubmatch(m.Id) for ^(\d+).*$ : no match unless
\* the id starts with a digit and has no newline after the digit run ('.'
\* does not match a newline and '$' only matches at the end of the text).
NumberPrefixMatches(id) ==
  LET s   == Bytes[id]
      digits == DigitRun(s)
      rest == SubSeq(s, Len(digits) + 1, Len(s))
  IN  IF digits # <<>> /\ \A i \in 1..Len(rest) : rest[i] # 10
        THEN <<s, digits>>
        ELSE <<>>

isNumeric(id) == Len(NumberPrefixMatches(id)) > 0

VersionInt(id) ==
  LET p == ParseInt(NumberPrefixMatches(id)[2])
  IN  IF p.err THEN <<>> ELSE p.value

\* Migration.Less without the test that the two version numbers differ.
Less_VersionOnly(m, other) ==
  CASE isNumeric(m) /\ isNumeric(other) ->
         Int64Less(VersionInt(m), VersionInt(other))
    [] isNumeric(m) /\ ~isNumeric(other) -> TRUE
    [] ~isNumeric(m) /\ isNumeric(other) -> FALSE
    [] OTHER -> BytesLess(Bytes[m], Bytes[other])

\* Migration.Less, on the ids of the two migrations.
Less(m, other) ==
  CASE isNumeric(m) /\ isNumeric(other) /\ VersionInt(m) # VersionInt(other) ->
         Int64Less(VersionInt(m), VersionInt(other))
    [] isNumeric(m) /\ ~isNumeric(other) -> TRUE
    [] ~isNumeric(m) /\ isNumeric(other) -> FALSE
    [] OTHER -> BytesLess(Bytes[m], Bytes[other])

RECURSIVE InsertById(_, _)
InsertById(x, s) ==
  IF s = <<>> THEN <<x>>
  ELSE IF Less(x, Head(s)) THEN <<x>> \o s
  ELSE <<Head(s)>> \o InsertById(x, Tail(s))

RECURSIVE SortById(_)
\* sort.Sort(byId(migrations)): the ids arranged so that byId.Less holds
\* between no later and earlier element.
SortById(s) ==
  IF s = <<>> THEN <<>> ELSE InsertById(Head(s), SortById(Tail(s)))

(***************************************************************************)
(* Wire values and their coercion (convertAssign).                         *)
(***************************************************************************)
\* A wire value is what encoding/json decodes into an interface{}: nil, a
\* float64, a string, a bool or a composite.  A float64 is held in tenths,
\* so 25.0 is Float64(250) and -2.9 is Float64(-29).  The values Go variables
\* hold have the same shape: .t is the Go type.
Nil == [t |-> "nil", n |-> 0, s |-> ""]
Float64(tenths) == [t |-> "float64", n |-> tenths, s |-> ""]
Str(s) == [t |-> "string", n |-> 0, s |-> s]
Bool(b) == [t |-> "bool", n |-> IF b THEN 1 ELSE 0, s |-> ""]
EmptyArray == [t |-> "[]interface {}", n |-> 0, s |-> ""]
GoInt(kind, i) == [t |-> kind, n |-> i, s |-> ""]

\* The bytes of the strings that travel as wire values.
WireBytes ==
  [ s \in {"", "ann", "bob", "old", "abc", "25", "25abc", "-7", " 42", "2.9",
           "1_0"} |->
    CASE s = ""      -> <<>>
      [] s = "ann"   -> <<97, 110, 110>>
      [] s = "bob"   -> <<98, 111, 98>>
      [] s = "old"   -> <<111, 108, 100>>
      [] s = "abc"   -> <<97, 98, 99>>
      [] s = "25"    -> <<50, 53>>
      [] s = "25abc" -> <<50, 53, 97, 98, 99>>
      [] s = "-7"    -> <<45, 55>>
      [] s = " 42"   -> <<32, 52, 50>>
      [] s = "2.9"   -> <<50, 46, 57>>
      [] s = "1_0"   -> <<49, 95, 48>> ]

\* The destination kinds: a pointer to a Go variable of that type, or
\* "value" for a destination that is no pointer.
IntKinds == {"int", "int64", "int32", "uint8"}
DestKinds == IntKinds \cup {"string", "float64", "bool", "any", "value"}

\* Kinds of pointer destinations that the type switch of convertAssign has no
\* case for and that are no sql.Scanner: *time.Time and *[]byte.
UnregisteredKinds == {"time.Time", "[]uint8"}

\* The zero value of a destination and a value that differs from it.
Zero(kind) ==
  CASE kind = "string"  -> Str("")
    [] kind = "float64" -> Float64(0)
    [] kind = "bool"    -> Bool(FALSE)
    [] kind \in IntKinds \cup UnregisteredKinds -> GoInt(kind, 0)
    [] OTHER -> Nil

Preset(kind) ==
  CASE kind = "string"  -> Str("old")
    [] kind = "float64" -> Float64(15)
    [] kind = "bool"    -> Bool(TRUE)
    [] kind \in IntKinds \cup UnregisteredKinds -> GoInt(kind, 7)
    [] OTHER -> Str("old")

\* int(f), int64(f): the fraction is discarded.
TruncateFloat(tenths) ==
  IF tenths >= 0 THEN tenths \div 10 ELSE -((-tenths) \div 10)

\* fmt.Sprintf("%v", src).  A float64 below 1e6 prints in positional
\* notation with the fewest digits.
Sprintf_v(src) ==
  CASE src.t = "string" -> src.s
    [] src.t = "bool" -> IF src.n = 1 THEN "true" ELSE "false"
    [] src.t = "float64" ->
         LET a == IF src.n < 0 THEN -src.n ELSE src.n
             sign == IF src.n < 0 THEN "-" ELSE ""
         IN  IF a % 10 = 0 THEN sign \o ToString(a \div 10)
             ELSE sign \o ToString(a \div 10) \o "." \o ToString(a % 10)
    [] src.t = "[]interface {}" -> "[]"
    [] OTHER -> "<nil>"

RECURSIVE SkipSpace(_)
SkipSpace(b) ==
  IF Len(b) > 0 /\ Head(b) \in {32, 9} THEN SkipSpace(Tail(b)) ELSE b

\* The longest prefix of b made of decimal digits and underscores.
RECURSIVE ScanNumber(_)
ScanNumber(b) ==
  IF Len(b) > 0 /\ (IsDigit(Head(b)) \/ Head(b) = 95)
    THEN <<Head(b)>> \o ScanNumber(Tail(b)) ELSE <<>>

RECURSIVE Atoi(_)
Atoi(digs) ==
  IF Len(digs) = 0 THEN 0
  ELSE 10 * Atoi(SubSeq(digs, 1, Len(digs) - 1)) + (digs[Len(digs)] - 48)

\* fmt.Sscanf(s, "%d", &i): leading blanks are skipped, a sign is accepted,
\* then the longest run of digits is the number; what follows it is not
\* looked at.  No digit, or an underscore in the run, is an error.
Sscanf_d(s) ==
  LET b == SkipSpace(WireBytes[s])
      neg == Len(b) > 0 /\ Head(b) = 45
      rest == IF Len(b) > 0 /\ Head(b) \in {43, 45} THEN Tail(b) ELSE b
      tok == ScanNumber(rest)
  IN  IF Len(tok) = 0 \/ 95 \in {tok[i] : i \in 1..Len(tok)}
        THEN [ok |-> FALSE, i |-> 0]
        ELSE [ok |-> TRUE, i |-> IF neg THEN -Atoi(tok) ELSE Atoi(tok)]

Converted(v) == [err |-> "nil", val |-> v]

CannotConvert(src, kind, old) ==
  [err |-> "cannot convert " \o src.t \o " to " \o kind, val |-> old]

\* convertAssign, case *int.
convertAssignInt(src, old) ==
  IF src.t = "nil" THEN Converted(GoInt("int", 0))
  ELSE IF src.t = "float64"
    THEN Converted(GoInt("int", TruncateFloat(src.n)))
  ELSE IF src.t = "string" /\ Sscanf_d(src.s).ok
    THEN Converted(GoInt("int", Sscanf_d(src.s).i))
  ELSE CannotConvert(src, "int", old)

\* The reflection fallback storing the zero value in the destination.
convertAssignFallback_Zeroing(kind, old) ==
  IF kind = "value"
    THEN [err |-> "destination not a pointer", val |-> old]
    ELSE Converted(Zero(kind))

\* convertAssign past its type switch: a destination that is no pointer is
\* an error, any other destination is left as it is and nil is returned.
convertAssignFallback(kind, old) ==
  IF kind = "value"
    THEN [err |-> "destination not a pointer", val |-> old]
    ELSE Converted(old)

\* convertAssign(dest, src) for a destination of the given kind holding old:
\* the error returned and the value the destination holds afterwards.
convertAssign(kind, src, old) ==
  CASE kind = "string" ->
         IF src.t = "nil" THEN Converted(Str("")) ELSE Converted(Str(Sprintf_v(src)))
    [] kind = "int" -> convertAssignInt(src, old)
    [] kind = "int64" ->
         IF src.t = "nil" THEN Converted(GoInt("int64", 0))
         ELSE IF src.t = "float64"
           THEN Converted(GoInt("int64", TruncateFloat(src.n)))
         ELSE CannotConvert(src, "int64", old)
    [] kind = "float64" ->
         IF src.t = "nil" THEN Converted(Float64(0))
         ELSE IF src.t = "float64" THEN Converted(src)
         ELSE CannotConvert(src, "float64", old)
    [] kind = "bool" ->
         IF src.t = "nil" THEN Converted(Bool(FALSE))
         ELSE IF src.t = "bool" THEN Converted(src)
         ELSE IF src.t = "float64" THEN Converted(Bool(src.n # 0))
         ELSE CannotConvert(src, "bool", old)
    [] kind = "any" -> Converted(src)
    [] OTHER -> convertAssignFallback(kind, old)

\* No call of convertAssign is under way.
NoConv ==
  [kind |-> "none", src |-> Nil, old |-> Nil, done |-> FALSE, err |-> "nil",
   val |-> Nil]

ConvIdle == conv = NoConv

\* No client and no pool is in use.
NoClient == [isNil |-> TRUE, AccountID |-> "", APIToken |-> "", DatabaseID |-> ""]
NoPool == [connections |-> <<>>, currentDB |-> "", maxCacheAge |-> 0]
NoCret == [op |-> "none", args |-> <<>>, err |-> "nil", db |-> "", used |-> FALSE,
           stale |-> FALSE]
NoConn == [name |-> "", id |-> ""]
ConnIdle ==
  /\ service = {} /\ client = NoClient /\ pool = NoPool /\ now = 0
  /\ cret = NoCret /\ lastConn = NoConn

\* No call of ConvertParams is under way.
NoParams == [args |-> <<>>, done |-> FALSE, err |-> "nil", out |-> <<>>, isNil |-> TRUE]
ParamsIdle == params = NoParams

\* The goroutines that call the query operations of one pool, and a
\* goroutine that is in none.
Goroutines == {"g1", "g2"}
NoFlight ==
  [pc |-> "idle", op |-> "", name |-> "", exists |-> FALSE, id |-> "", stale |-> FALSE,
   conn |-> NoConn]
FlightIdle == inflight = [g \in Goroutines |-> NoFlight]

RestIdle == ConnIdle /\ ParamsIdle /\ overlap = FALSE /\ FlightIdle

(***************************************************************************)
(* The migration executor.                                                 *)
(***************************************************************************)
\* The callers that run migrations.
Runs == {1, 2}

Up == "Up"
Down == "Down"

\* The parsed migrations the sources hand out.
Migration ==
  [ id \in {"1_a", "2_b", "3_c"} |->
    CASE id = "1_a"  -> [Id |-> id, Up |-> <<"CREATE TABLE a", "CREATE INDEX a_i">>,
                                   Down |-> <<"DROP TABLE a">>]
      [] id = "2_b"  -> [Id |-> id, Up |-> <<"CREATE TABLE b">>,
                                   Down |-> <<"DROP INDEX b_i", "DROP TABLE b">>]
      [] id = "3_c"  -> [Id |-> id, Up |-> <<"CREATE TABLE c">>,
                                   Down |-> <<>>] ]

\* The migration sources a caller passes: the ids in the order the source
\* lists them, and whether listing can fail (a directory that cannot be read).
Sources ==
  [ s \in {"A", "B"} |->
    CASE s = "A" -> [kind |-> "memory", ids |-> <<"3_c", "1_a">>]
      [] s = "B" -> [kind |-> "file",   ids |-> <<"2_b", "3_c", "1_a">>] ]

\* The values of max a caller passes to ExecMax.
MaxPool == {-1, 1, 2}

\* What one request to the service can come to: the statement is executed and
\* the envelope says success, the envelope says success=false and the statement
\* had no effect, or DoRequest returns an error.
Outcomes == {"ok", "rejected", "err"}

NoErr == [ctx |-> "nil", id |-> "", cause |-> "nil"]

IdleRun ==
  [pc |-> "idle", src |-> "none", dir |-> Up, max |-> 0, applied |-> <<>>,
   toApply |-> <<>>, mi |-> 1, qi |-> 1, count |-> 0, err |-> NoErr,
   trace |-> <<>>]

NoCall == [src |-> "none", dir |-> Up, max |-> 0, failed |-> FALSE]

Range(s) == {s[i] : i \in 1..Len(s)}

Reverse(s) == [i \in 1..Len(s) |-> s[Len(s) + 1 - i]]

RECURSIVE InsertBytes(_, _)
InsertBytes(x, s) ==
  IF s = <<>> THEN <<x>>
  ELSE IF BytesLess(Bytes[x], Bytes[Head(s)]) THEN <<x>> \o s
  ELSE <<Head(s)>> \o InsertBytes(x, Tail(s))

RECURSIVE OrderByIdAsc(_)
\* SELECT id FROM <table> ORDER BY id ASC: a TEXT column is ordered by the
\* bytes of its values.
OrderByIdAsc(ids) ==
  IF ids = <<>> THEN <<>> ELSE InsertBytes(Head(ids), OrderByIdAsc(Tail(ids)))

\* FindMigrations without the sort.Sort call.
FindMigrations_Unsorted(s) == Sources[s].ids

\* MemoryMigrationSource.FindMigrations / findMigrations: the source's
\* migrations sorted with byId.
FindMigrations(s) == SortById(Sources[s].ids)

\* The cap with max >= 0 for max > 0.
Truncate_FromZero(toApply, max) ==
  IF max >= 0 /\ Len(toApply) > max THEN SubSeq(toApply, 1, max) ELSE toApply

Truncate(toApply, max) ==
  IF max > 0 /\ Len(toApply) > max THEN SubSeq(toApply, 1, max) ELSE toApply

planMigrations(all, applied, dir, max) ==
  LET appliedMap == Range(applied)
      migrationMap == Range(all)
      toApply ==
        IF dir = Up
          THEN SelectSeq(all, LAMBDA m : m \notin appliedMap)
          ELSE SelectSeq(Reverse(applied), LAMBDA id : id \in migrationMap)
  IN  Truncate(toApply, max)

\* The statements applyMigration runs for migration id in direction dir.
Queries(id, dir) == IF dir = Up THEN Migration[id].Up ELSE Migration[id].Down

\* ExecMax returns (count, err) to its caller.
ReturnFrom(r, err) ==
  run' = [run EXCEPT ![r].pc = "done", ![r].err = err]

ExecInit ==
  /\ tableExists = FALSE
  /\ ledger = <<>>
  /\ run = [r \in Runs |-> IdleRun]
  /\ prev = NoCall

\* A caller calls ExecMax(client, m, dir, max); callers serialize their runs.
ExecMax(r, s, dir, max) ==
  /\ \A o \in Runs : run[o].pc = "idle"
  /\ run' = [run EXCEPT ![r] = [IdleRun EXCEPT !.pc = "ensureTable", !.src = s,
                                               !.dir = dir, !.max = max]]
  /\ UNCHANGED <<tableExists, ledger, prev>>
  /\ UNCHANGED nonExecVars

\* Exec(client, m, dir) is ExecMax with max = 0.
Exec(r, s, dir) == ExecMax(r, s, dir, 0)

\* Step 1 of ExecMax: CREATE TABLE IF NOT EXISTS through client.CreateTable.
ensureTable(r) ==
  /\ run[r].pc = "ensureTable"
  /\ \E o \in Outcomes :
       /\ tableExists' = IF o = "ok" THEN TRUE ELSE tableExists
       /\ IF o = "err"
            THEN ReturnFrom(r, [ctx |-> "failed to ensure migration table",
                                id |-> "", cause |-> "transport"])
            ELSE run' = [run EXCEPT ![r].pc = "getAppliedMigrations"]
  /\ UNCHANGED <<ledger, prev>>
  /\ UNCHANGED nonExecVars

\* Step 2 going on with an empty applied set when ToRows reports an api error.
getAppliedMigrations_IgnoreApiError(r) ==
  /\ run[r].pc = "getAppliedMigrations"
  /\ \E o \in Outcomes :
       IF o = "err"
         THEN ReturnFrom(r, [ctx |-> "failed to get applied migrations",
                             id |-> "", cause |-> "transport"])
       ELSE IF o = "rejected" \/ ~tableExists
         THEN run' = [run EXCEPT ![r].pc = "FindMigrations", ![r].applied = <<>>]
       ELSE run' = [run EXCEPT ![r].pc = "FindMigrations",
                               ![r].applied = OrderByIdAsc(ledger)]
  /\ UNCHANGED <<tableExists, ledger, prev>>
  /\ UNCHANGED nonExecVars

\* Step 2: the SELECT, ToRows and the Next/StructScan loop over its rows.  A
\* success=false envelope (also the answer when the table is missing) is
\* turned into an error by ToRows.
getAppliedMigrations(r) ==
  /\ run[r].pc = "getAppliedMigrations"
  /\ \E o \in Outcomes :
       IF o = "err"
         THEN ReturnFrom(r, [ctx |-> "failed to get applied migrations",
                             id |-> "", cause |-> "transport"])
       ELSE IF o = "rejected" \/ ~tableExists
         THEN ReturnFrom(r, [ctx |-> "failed to get applied migrations",
                             id |-> "", cause |-> "api error"])
       ELSE run' = [run EXCEPT ![r].pc = "FindMigrations",
                               ![r].applied = OrderByIdAsc(ledger)]
  /\ UNCHANGED <<tableExists, ledger, prev>>
  /\ UNCHANGED nonExecVars

\* Steps 3 and 4: m.FindMigrations() and planMigrations.
FindAndPlan(r) ==
  /\ run[r].pc = "FindMigrations"
  /\ \E o \in {"ok", "err"} :
       /\ o = "err" => Sources[run[r].src].kind = "file"
       /\ IF o = "err"
            THEN ReturnFrom(r, [ctx |-> "failed to find migrations",
                                id |-> "", cause |-> "readdir"])
            ELSE run' = [run EXCEPT
                   ![r].pc = "applyMigration",
                   ![r].toApply = planMigrations(FindMigrations(run[r].src),
                                    run[r].applied, run[r].dir, run[r].max)]
  /\ UNCHANGED <<tableExists, ledger, prev>>
  /\ UNCHANGED nonExecVars

\* applyMigration going on to the next statement when client.Query returns an
\* error.
applyMigrationQuery_KeepGoing(r) ==
  LET f  == run[r]
      id == f.toApply[f.mi]
      q  == Queries(id, f.dir)[f.qi]
  IN
  /\ f.pc = "applyMigration"
  /\ f.mi <= Len(f.toApply)
  /\ f.qi <= Len(Queries(id, f.dir))
  /\ \E o \in Outcomes :
       run' = [run EXCEPT ![r].qi = f.qi + 1,
                 ![r].trace = Append(f.trace, [id |-> id, op |-> "query", q |-> q, res |-> o])]
  /\ UNCHANGED <<tableExists, ledger, prev>>
  /\ UNCHANGED nonExecVars

\* applyMigration writing the ledger row when client.Query returns an error
\* for a statement.
applyMigrationQuery_RecordOnError(r) ==
  LET f  == run[r]
      id == f.toApply[f.mi]
      q  == Queries(id, f.dir)[f.qi]
  IN
  /\ f.pc = "applyMigration"
  /\ f.mi <= Len(f.toApply)
  /\ f.qi <= Len(Queries(id, f.dir))
  /\ \E o \in Outcomes :
       LET ev == [id |-> id, op |-> "query", q |-> q, res |-> o]
       IN
       IF o = "err"
            THEN /\ run' = [run EXCEPT ![r].pc = "done",
                              ![r].trace = Append(f.trace, ev),
                              ![r].err = [ctx |-> "failed to apply migration",
                                          id |-> id, cause |-> "transport"]]
                 /\ ledger' = IF f.dir = Up
                                THEN (IF id \in Range(ledger) THEN ledger ELSE Append(ledger, id))
                                ELSE SelectSeq(ledger, LAMBDA x : x # id)
            ELSE /\ run' = [run EXCEPT ![r].qi = f.qi + 1,
                              ![r].trace = Append(f.trace, ev)]
                 /\ UNCHANGED ledger
  /\ UNCHANGED <<tableExists, prev>>
  /\ UNCHANGED nonExecVars

\* applyMigration, one statement of the migration: client.Query(q, nil).
applyMigrationQuery(r) ==
  LET f  == run[r]
      id == f.toApply[f.mi]
      q  == Queries(id, f.dir)[f.qi]
  IN
  /\ f.pc = "applyMigration"
  /\ f.mi <= Len(f.toApply)
  /\ f.qi <= Len(Queries(id, f.dir))
  /\ \E o \in Outcomes :
       LET ev == [id |-> id, op |-> "query", q |-> q, res |-> o]
       IN
       IF o = "err"
            THEN run' = [run EXCEPT ![r].pc = "done",
                           ![r].trace = Append(f.trace, ev),
                           ![r].err = [ctx |-> "failed to apply migration",
                                       id |-> id, cause |-> "transport"]]
            ELSE run' = [run EXCEPT ![r].qi = f.qi + 1,
                           ![r].trace = Append(f.trace, ev)]
  /\ UNCHANGED <<tableExists, ledger, prev>>
  /\ UNCHANGED nonExecVars

\* applyMigration, after the statements: the INSERT (Up) or DELETE (Down) of
\* the ledger row, then count++ in ExecMax.  The service refuses an INSERT of
\* an id the table already holds (PRIMARY KEY) and any statement on a missing
\* table.
applyMigrationRecord(r) ==
  LET f  == run[r]
      id == f.toApply[f.mi]
      op == IF f.dir = Up THEN "insert" ELSE "delete"
  IN
  /\ f.pc = "applyMigration"
  /\ f.mi <= Len(f.toApply)
  /\ f.qi > Len(Queries(id, f.dir))
  /\ \E o \in Outcomes :
       LET res == IF o = "ok" /\ (~tableExists \/ (f.dir = Up /\ id \in Range(ledger)))
                    THEN "rejected" ELSE o
           ev  == [id |-> id, op |-> op, q |-> "", res |-> res]
       IN
       /\ ledger' = IF res # "ok" THEN ledger
                    ELSE IF f.dir = Up THEN Append(ledger, id)
                    ELSE SelectSeq(ledger, LAMBDA x : x # id)
       /\ IF res = "err"
            THEN run' = [run EXCEPT ![r].pc = "done",
                           ![r].trace = Append(f.trace, ev),
                           ![r].err = [ctx |-> "failed to apply migration",
                                       id |-> id, cause |-> "transport"]]
            ELSE run' = [run EXCEPT ![r].mi = f.mi + 1, ![r].qi = 1,
                           ![r].count = f.count + 1,
                           ![r].trace = Append(f.trace, ev)]
  /\ UNCHANGED <<tableExists, prev>>
  /\ UNCHANGED nonExecVars

\* The loop over toApply is over: return count, nil.
ExecMaxReturn(r) ==
  /\ run[r].pc = "applyMigration"
  /\ run[r].mi > Len(run[r].toApply)
  /\ ReturnFrom(r, NoErr)
  /\ UNCHANGED <<tableExists, ledger, prev>>
  /\ UNCHANGED nonExecVars

\* The caller has the result of its call.
Returned(r) ==
  /\ run[r].pc = "done"
  /\ prev' = [src |-> run[r].src, dir |-> run[r].dir, max |-> run[r].max,
              failed |-> run[r].err # NoErr]
  /\ run' = [run EXCEPT ![r] = IdleRun]
  /\ UNCHANGED <<tableExists, ledger>>
  /\ UNCHANGED nonExecVars

Init == ExecInit /\ CallIdle /\ RowsIdle /\ ConvIdle /\ RespIdle /\ ParseIdle /\ RestIdle

Next ==
  \E r \in Runs :
    \/ \E s \in DOMAIN Sources, dir \in {Up, Down}, max \in MaxPool :
         ExecMax(r, s, dir, max)
    \/ \E s \in DOMAIN Sources, dir \in {Up, Down} : Exec(r, s, dir)
    \/ ensureTable(r)
    \/ getAppliedMigrations(r)
    \/ FindAndPlan(r)
    \/ applyMigrationQuery(r)
    \/ applyMigrationRecord(r)
    \/ ExecMaxReturn(r)
    \/ Returned(r)

Spec == Init /\ [][Next]_vars

(***************************************************************************)
(* The executor with callers that do not serialize their runs: ExecMax     *)
(* takes no lock, and each caller starts one Up run at any time.           *)
(***************************************************************************)
\* A run is under way.
Active(f) == f.pc \notin {"idle", "done"}

\* A caller calls ExecMax(client, m, Up, max) whatever the other caller does.
ExecMaxConcurrent(r, s, max) ==
  /\ run[r].pc = "idle"
  /\ run' = [run EXCEPT ![r] = [IdleRun EXCEPT !.pc = "ensureTable", !.src = s,
                                               !.dir = Up, !.max = max]]
  /\ overlap' = (overlap \/ \E o \in Runs \ {r} : Active(run[o]))
  /\ UNCHANGED <<tableExists, ledger, prev>>
  /\ UNCHANGED <<callVars, rowsVars, convVars, respVars, parseVars, connVars, paramVars,
                 flightVars>>

RaceNext ==
  \E r \in Runs :
    \/ \E s \in DOMAIN Sources, max \in MaxPool : ExecMaxConcurrent(r, s, max)
    \/ ensureTable(r)
    \/ getAppliedMigrations(r)
    \/ FindAndPlan(r)
    \/ applyMigrationQuery(r)
    \/ applyMigrationRecord(r)
    \/ ExecMaxReturn(r)

SpecRace == Init /\ [][RaceNext]_vars

(***************************************************************************)
(* The ordering on its own: calls of Migration.Less on two ids, of         *)
(* sort.Sort(byId(...)) on three, and of Migration.Less on every pair of   *)
(* three migrations.                                                       *)
(***************************************************************************)
\* The ids the ordering is called with.
LessPool == DOMAIN Bytes

\* The ids the sorted lists are made of.
SortPool == {"10_x", "2_y", "alpha", "beta", "02_y", "1_a", "1\nz",
             "9223372036854775808_a"}

LessInit ==
  /\ ExecInit /\ RowsIdle /\ ConvIdle /\ RespIdle /\ ParseIdle /\ RestIdle
  /\ \/ \E m, other \in LessPool :
          call = [NoPureCall EXCEPT !.op = "Less", !.m = m, !.other = other]
     \/ \E a, b, c \in SortPool :
          /\ a # b /\ a # c /\ b # c
          /\ call = [NoPureCall EXCEPT !.op = "Sort", !.in = <<a, b, c>>]
     \/ \E a, b, c \in LessPool :
          call = [NoPureCall EXCEPT !.op = "Pairs", !.in = <<a, b, c>>]

\* m.Less(other) returns.
LessCall ==
  /\ call.op = "Less" /\ ~call.done
  /\ call' = [call EXCEPT !.done = TRUE, !.less = Less(call.m, call.other)]
  /\ UNCHANGED nonCallVars

\* sort.Sort(byId(migrations)) returns.
SortCall ==
  /\ call.op = "Sort" /\ ~call.done
  /\ call' = [call EXCEPT !.done = TRUE, !.out = SortById(call.in)]
  /\ UNCHANGED nonCallVars

\* b[i].Less(b[j]) for every two of three migrations, as byId.Less asks it:
\* cmp[i][j] is what the call returned.
PairsCall ==
  /\ call.op = "Pairs" /\ ~call.done
  /\ call' = [call EXCEPT !.done = TRUE,
                          !.cmp = [i \in 1..3 |->
                                     [j \in 1..3 |-> Less(call.in[i], call.in[j])]]]
  /\ UNCHANGED nonCallVars

LessNext == LessCall \/ SortCall \/ PairsCall

SpecLess == LessInit /\ [][LessNext]_vars

\* The value of the digit run an id starts with, as decimal digits without
\* leading zeros.
DigitRunValue(id) == StripZeros(DigitRun(Bytes[id]))

StartsWithDigits(id) == DigitRun(Bytes[id]) # <<>>

\* The ordering rule as stated for the ids.
RuleLess(a, b) ==
  IF StartsWithDigits(a) /\ StartsWithDigits(b)
    THEN IF DigitRunValue(a) # DigitRunValue(b)
           THEN Int64Less(DigitRunValue(a), DigitRunValue(b))
           ELSE BytesLess(Bytes[a], Bytes[b])
  ELSE IF StartsWithDigits(a) THEN TRUE
  ELSE IF StartsWithDigits(b) THEN FALSE
  ELSE BytesLess(Bytes[a], Bytes[b])

\* C8: Migration.Less follows the ordering rule for every pair of ids: two
\* ids that start with a digit run compare by the integer value of the run
\* and, when the values are equal, lexically by full id; an id with a digit
\* run is less than one without; two ids without compare lexically by full
\* id.  Sorting "10_x", "2_y", "alpha" gives "2_y", "10_x", "alpha".
C8_LessFollowsRule ==
  /\ (call.op = "Less" /\ call.done) => call.less = RuleLess(call.m, call.other)
  /\ (call.op = "Sort" /\ call.done /\ call.in = <<"10_x", "2_y", "alpha">>) =>
        call.out = <<"2_y", "10_x", "alpha">>

\* The arrangements of three ids.
Arrangements(s) ==
  { <<s[p[1]], s[p[2]], s[p[3]]>> :
      p \in { q \in [1..3 -> 1..3] : \A i, j \in 1..3 : i # j => q[i] # q[j] } }

\* C31: Migration.Less is a strict total order on migrations with distinct
\* ids: no migration is less than itself, no two are less than each other,
\* less-than is transitive, and of two different ids exactly one is less than
\* the other; so sort.Sort(byId(...)) returns the same list for every
\* arrangement of the same migrations.
C31_StrictTotalOrder ==
  /\ (call.op = "Pairs" /\ call.done) =>
        /\ \A i, j \in 1..3 : call.in[i] = call.in[j] => ~call.cmp[i][j]
        /\ \A i, j \in 1..3 : call.cmp[i][j] => ~call.cmp[j][i]
        /\ \A i, j, k \in 1..3 :
              call.cmp[i][j] /\ call.cmp[j][k] => call.cmp[i][k]
        /\ \A i, j \in 1..3 :
              call.in[i] # call.in[j] => (call.cmp[i][j] \/ call.cmp[j][i])
  /\ (call.op = "Sort" /\ call.done) =>
        /\ \A p \in Arrangements(call.in) : SortById(p) = call.out
        /\ \A i, j \in 1..3 : i < j => Less(call.out[i], call.out[j])

\* Three different migrations have been compared, one of them with a version
\* number beyond int64, and form a chain.
C31_Witness ==
  /\ call.op = "Pairs" /\ call.done
  /\ call.in = <<"9223372036854775808_a", "1_a", "alpha">>
  /\ call.cmp[1][2] /\ call.cmp[2][3] /\ call.cmp[1][3]

(***************************************************************************)
(* Properties of the executor.                                             *)
(***************************************************************************)
ApplyFailed == "failed to apply migration"

\* The frame has a plan: planMigrations has run.
Planned(f) ==
  \/ f.pc = "applyMigration"
  \/ f.pc = "done" /\ f.err.ctx \in {"nil", ApplyFailed}

\* The frame has a plan and has sent no request for it yet.
JustPlanned(f) == f.pc = "applyMigration" /\ f.trace = <<>>

RECURSIVE MigrationOrder(_)
\* The ids of the migrations a request log is about, in order, each once per
\* block of consecutive requests.
MigrationOrder(t) ==
  IF t = <<>> THEN <<>>
  ELSE LET rest == MigrationOrder(Tail(t))
       IN  IF rest # <<>> /\ Head(rest) = Head(t).id
             THEN rest ELSE <<Head(t).id>> \o rest

IsRecord(ev) == ev.op \in {"insert", "delete"}

\* The number of migrations whose statements and ledger write all returned
\* without an error.
Completed(t) == Cardinality({i \in 1..Len(t) : IsRecord(t[i]) /\ t[i].res # "err"})

NoDuplicates(s) == \A i, j \in 1..Len(s) : i # j => s[i] # s[j]

ReverseApplication(s) ==
  SelectSeq(Reverse(ledger), LAMBDA id : id \in Range(Sources[s].ids))

\* C3: a Down run reverts the migrations in reverse order of application (the
\* most recently applied first), not in reverse id order.
C3_DownInReverseApplicationOrder ==
  \A r \in Runs :
    (JustPlanned(run[r]) /\ run[r].dir = Down) =>
      run[r].toApply = SubSeq(ReverseApplication(run[r].src), 1, Len(run[r].toApply))

\* C4: Exec(client, source, Down) reverts exactly the most recently applied
\* migration: with k >= 1 applied migrations known to the source, and the
\* service executing every request of the run, it returns 1 and leaves the
\* other k - 1 ledger rows.
C4_ExecDownRevertsLast ==
  \A r \in Runs :
    LET f == run[r]
        known == Range(f.applied) \cap Range(Sources[f.src].ids)
    IN  (/\ f.pc = "done" /\ f.err = NoErr /\ f.dir = Down /\ f.max = 0
         /\ known # {}
         /\ \A i \in 1..Len(f.trace) : f.trace[i].res = "ok") =>
          /\ f.count = 1
          /\ Cardinality(known \cap Range(ledger)) = Cardinality(known) - 1

\* C5: an Up run that immediately follows an uncapped Up run of the same
\* source that returned no error sends no migration statement, writes no
\* ledger row and returns 0.
C5_UpIdempotent ==
  \A r \in Runs :
    LET f == run[r]
    IN  (f.pc = "done" /\ f.dir = Up /\ prev.src = f.src /\ prev.dir = Up
         /\ prev.max <= 0 /\ ~prev.failed) =>
          /\ f.trace = <<>>
          /\ f.count = 0

UncappedPlan(f) ==
  IF f.dir = Up
    THEN SelectSeq(SortById(Sources[f.src].ids), LAMBDA id : id \notin Range(ledger))
    ELSE SelectSeq(Reverse(OrderByIdAsc(ledger)),
                   LAMBDA id : id \in Range(Sources[f.src].ids))

Min(a, b) == IF a < b THEN a ELSE b

\* C7: with max > 0 the plan is the first max entries of the uncapped ordered
\* plan (all of it when it is shorter) and the run changes at most max ledger
\* rows; with max <= 0 the plan is the whole uncapped plan.
C7_Cap ==
  \A r \in Runs :
    LET f == run[r]
        u == UncappedPlan(f)
        changed == (Range(ledger) \ Range(f.applied)) \cup (Range(f.applied) \ Range(ledger))
    IN  /\ JustPlanned(f) =>
             f.toApply = IF f.max > 0 THEN SubSeq(u, 1, Min(f.max, Len(u))) ELSE u
        /\ (Planned(f) /\ f.max > 0) => Cardinality(changed) <= f.max

\* A capped run whose plan was cut short, at its end with max rows changed; an
\* uncapped one is covered by C6_Witness.
C7_Witness ==
  \E r \in Runs :
    LET f == run[r]
    IN  /\ f.pc = "done" /\ f.err = NoErr /\ f.max = 2
        /\ Cardinality(Range(Sources[f.src].ids) \ Range(f.applied)) = 3
        /\ f.dir = Up
        /\ Cardinality(Range(ledger) \ Range(f.applied)) = 2

(***************************************************************************)
(* The cursor utils.Rows, used by one caller.                              *)
(***************************************************************************)
\* The most rows a result holds.
MaxRows == 3

\* The calls of Next a caller makes on one cursor are counted up to here.
MaxNextCalls == 6

\* The rows a normalized result is made of: column name -> wire value.
RowPool ==
  { [id |-> Float64(10), name |-> Str("ann")],
    [id |-> Float64(-29), extra |-> Bool(TRUE)],
    [id |-> Str("abc"), name |-> Nil] }

\* The column lists NewRows is given.
ColumnsPool == { <<>>, <<"id", "name">> }

SeqsUpTo(S, n) == UNION {[1..k -> S] : k \in 0..n}

\* The orders in which ranging over the keys of a Go map can list them.
KeyOrders(row) ==
  {o \in [1..Cardinality(DOMAIN row) -> DOMAIN row] :
     \A i, j \in DOMAIN o : i # j => o[i] # o[j]}

\* NewRows(rows, columns): the column lists the new cursor can have.
NewRows(rs, cols) ==
  IF Len(cols) = 0 /\ Len(rs) > 0 THEN KeyOrders(rs[1]) ELSE {cols}

RowsInit ==
  /\ ExecInit /\ CallIdle /\ ConvIdle /\ ParseIdle /\ RestIdle
  /\ resp = NoResp /\ result = NoResult /\ hasRows = TRUE
  /\ \E rs \in SeqsUpTo(RowPool, MaxRows), cols \in ColumnsPool :
       /\ rows = rs
       /\ columns \in NewRows(rs, cols)
  /\ current = -1
  /\ closed = FALSE
  /\ nextCalls = 0
  /\ ret = NoRet
  /\ dest = NoDest

ErrClosed == "sql: Rows is closed"
ErrArity(want, got) ==
  "sql: expected " \o ToString(want) \o " destination arguments in Scan, not "
    \o ToString(got)
ErrNotStruct == "sql: StructScan requires a pointer to a struct"
ErrNotPtr == "dest must be a pointer"
ErrNotSlice == "dest must be a pointer to a slice"

\* Next reporting a row while current <= len(rows).
RowsNext_OffByOne ==
  /\ nextCalls < MaxNextCalls
  /\ current' = current + 1
  /\ nextCalls' = nextCalls + 1
  /\ ret' = [op |-> "Next", at |-> current, ok |-> current' <= Len(rows), err |-> "nil"]
  /\ UNCHANGED <<rows, columns, closed, dest>>
  /\ UNCHANGED nonRowsVars

\* Rows.Next
RowsNext ==
  /\ nextCalls < MaxNextCalls
  /\ current' = current + 1
  /\ nextCalls' = nextCalls + 1
  /\ ret' = [op |-> "Next", at |-> current, ok |-> current' < Len(rows), err |-> "nil"]
  /\ UNCHANGED <<rows, columns, closed, dest>>
  /\ UNCHANGED nonRowsVars

\* Rows.Close
RowsClose ==
  /\ rows' = <<>>
  /\ closed' = TRUE
  /\ ret' = [op |-> "Close", at |-> current, ok |-> TRUE, err |-> "nil"]
  /\ UNCHANGED <<columns, current, nextCalls, dest>>
  /\ UNCHANGED nonRowsVars

\* The value Scan reads for a column of a row: nil when the row lacks it.
ColumnValue(row, colName) ==
  IF colName \in DOMAIN row THEN row[colName] ELSE Nil

\* The destination lists Scan is called with, as the kinds of the
\* destinations in argument order.
ScanDestPool ==
  { <<>>, <<"any", "any">>, <<"int", "string">>, <<"string", "int64">>,
    <<"bool", "float64">>, <<"value", "any">>, <<"int32", "uint8", "any">>,
    <<"time.Time", "int">> }

\* The values the caller's variables hold before a call.
Prior(types, preset) ==
  [i \in 1..Len(types) |-> IF preset THEN Preset(types[i]) ELSE Zero(types[i])]

First(S) == CHOOSE i \in S : \A j \in S : i <= j

\* The loop of Scan over the columns: it stops at the first destination
\* whose conversion fails, and the destinations before it are assigned.
ScanColumns(row, cols, types, old) ==
  LET coerce(i) == convertAssign(types[i], ColumnValue(row, cols[i]), old[i])
      bad == {i \in 1..Len(cols) : coerce(i).err # "nil"}
  IN  IF bad = {}
        THEN [err |-> "nil", val |-> [i \in 1..Len(cols) |-> coerce(i).val]]
        ELSE [err |-> "sql: Scan error on column index " \o ToString(First(bad) - 1)
                        \o ", name \"" \o cols[First(bad)] \o "\": "
                        \o coerce(First(bad)).err,
              val |-> [i \in 1..Len(cols) |->
                         IF i < First(bad) THEN coerce(i).val ELSE old[i]]]

\* Scan accepting more destinations than there are columns.
RowsScan_ArityAtLeast(types, preset) ==
  LET old == Prior(types, preset)
  IN
  /\ IF current < 0 \/ current >= Len(rows)
       THEN /\ ret' = [op |-> "Scan", at |-> current, ok |-> FALSE, err |-> ErrClosed]
            /\ dest' = [kind |-> "values", types |-> types, old |-> old, val |-> old]
     ELSE IF Len(types) < Len(columns)
       THEN /\ ret' = [op |-> "Scan", at |-> current, ok |-> FALSE,
                       err |-> ErrArity(Len(columns), Len(types))]
            /\ dest' = [kind |-> "values", types |-> types, old |-> old, val |-> old]
     ELSE LET r == ScanColumns(rows[current + 1], columns, types, old)
          IN  /\ ret' = [op |-> "Scan", at |-> current, ok |-> r.err = "nil", err |-> r.err]
              /\ dest' = [kind |-> "values", types |-> types, old |-> old, val |-> r.val]
  /\ UNCHANGED <<rows, columns, current, closed, nextCalls>>
  /\ UNCHANGED nonRowsVars

\* Rows.Scan(dest...): the destinations have the kinds types and hold their
\* zero values, or preset values, before the call.
RowsScan(types, preset) ==
  LET old == Prior(types, preset)
  IN
  /\ IF current < 0 \/ current >= Len(rows)
       THEN /\ ret' = [op |-> "Scan", at |-> current, ok |-> FALSE, err |-> ErrClosed]
            /\ dest' = [kind |-> "values", types |-> types, old |-> old, val |-> old]
     ELSE IF Len(types) # Len(columns)
       THEN /\ ret' = [op |-> "Scan", at |-> current, ok |-> FALSE,
                       err |-> ErrArity(Len(columns), Len(types))]
            /\ dest' = [kind |-> "values", types |-> types, old |-> old, val |-> old]
     ELSE LET r == ScanColumns(rows[current + 1], columns, types, old)
          IN  /\ ret' = [op |-> "Scan", at |-> current, ok |-> r.err = "nil", err |-> r.err]
              /\ dest' = [kind |-> "values", types |-> types, old |-> old, val |-> r.val]
  /\ UNCHANGED <<rows, columns, current, closed, nextCalls>>
  /\ UNCHANGED nonRowsVars

\* The record type the caller scans into,
\*   struct { ID int `db:"id"`; Name string }
\* as its fields in declaration order, their db tags and their types.
Fields == <<"ID", "Name">>
FieldTag == [ID |-> "id", Name |-> ""]
FieldType == [ID |-> "int", Name |-> "string"]

\* strings.ToLower on the field names.
ToLower == [ID |-> "id", Name |-> "name"]

\* The column a field resolves to, taken as is from the field name.
FieldColumn_AsDeclared ==
  [f \in DOMAIN FieldTag |-> IF FieldTag[f] = "" THEN f ELSE FieldTag[f]]

\* The column a field resolves to: the db tag, else the lower-cased name.
FieldColumn ==
  [f \in DOMAIN FieldTag |-> IF FieldTag[f] = "" THEN ToLower[f] ELSE FieldTag[f]]

ZeroRecord == [f \in DOMAIN FieldTag |-> Zero(FieldType[f])]
PresetRecord == [f \in DOMAIN FieldTag |-> Preset(FieldType[f])]

\* The body of StructScan once the cursor is on a row: the fields whose column
\* the row has are assigned in declaration order up to the first conversion
\* that fails; the others keep their value.
ScanRecord(row, rec) ==
  LET coerce(i) == convertAssign(FieldType[Fields[i]], row[FieldColumn[Fields[i]]],
                               rec[Fields[i]])
      present == {i \in 1..Len(Fields) : FieldColumn[Fields[i]] \in DOMAIN row}
      bad == {i \in present : coerce(i).err # "nil"}
      idx(f) == CHOOSE i \in 1..Len(Fields) : Fields[i] = f
  IN  [err |-> IF bad = {} THEN "nil"
               ELSE "sql: StructScan error on field " \o Fields[First(bad)] \o ": "
                      \o coerce(First(bad)).err,
       val |-> [f \in DOMAIN FieldTag |->
                  IF idx(f) \in present /\ (bad = {} \/ idx(f) < First(bad))
                    THEN coerce(idx(f)).val ELSE rec[f]]]

\* StructScan(dest) on the rows rs with r.current = c: the error returned and
\* the destination afterwards.  dest is a pointer to a record holding old, or
\* it is not a pointer to a struct.
StructScan(rs, c, isStructPtr, old) ==
  LET other == [kind |-> "other", types |-> <<>>, old |-> <<>>, val |-> <<>>]
      given == [kind |-> "record", types |-> <<>>, old |-> old, val |-> old]
  IN  IF c < 0 \/ c >= Len(rs)
        THEN [err |-> ErrClosed, dest |-> IF isStructPtr THEN given ELSE other]
      ELSE IF ~isStructPtr
        THEN [err |-> ErrNotStruct, dest |-> other]
      ELSE [err |-> ScanRecord(rs[c + 1], old).err,
            dest |-> [given EXCEPT !.val = ScanRecord(rs[c + 1], old).val]]

\* Rows.StructScan(dest): the record holds zero values or preset values.
RowsStructScan(isStructPtr, preset) ==
  LET r == StructScan(rows, current, isStructPtr,
                      IF preset THEN PresetRecord ELSE ZeroRecord)
  IN
  /\ ret' = [op |-> "StructScan", at |-> current, ok |-> r.err = "nil", err |-> r.err]
  /\ dest' = r.dest
  /\ UNCHANGED <<rows, columns, current, closed, nextCalls>>
  /\ UNCHANGED nonRowsVars

\* A record type with an unexported field,
\*   struct { ID int `db:"id"`; name string },
\* whose field name resolves to column "name" by its lower-cased name.
ZeroUnexported == [ID |-> Zero("int"), name |-> Zero("string")]
PresetUnexported == [ID |-> Preset("int"), name |-> Preset("string")]

\* What reflect raises when Interface() is called on a value obtained from an
\* unexported field: the call does not return, the panic unwinds the caller.
PanicUnexported ==
  "panic: reflect.Value.Interface: cannot return value obtained from unexported field or method"

\* StructScan(dest) with dest a pointer to that record type, holding old:
\* field ID is converted first; for field name the row lookup succeeds when
\* the row has column "name", and v.Field(i).Addr().Interface() panics.
StructScanUnexported(rs, c, old) ==
  LET given == [kind |-> "unexported", types |-> <<>>, old |-> old, val |-> old]
      row == rs[c + 1]
      first == convertAssign("int", row["id"], old.ID)
      after == IF "id" \in DOMAIN row THEN [old EXCEPT !.ID = first.val] ELSE old
  IN  IF c < 0 \/ c >= Len(rs)
        THEN [err |-> ErrClosed, dest |-> given]
      ELSE IF "id" \in DOMAIN row /\ first.err # "nil"
        THEN [err |-> "sql: StructScan error on field ID: " \o first.err,
              dest |-> [given EXCEPT !.val = after]]
      ELSE IF "name" \in DOMAIN row
        THEN [err |-> PanicUnexported, dest |-> [given EXCEPT !.val = after]]
      ELSE [err |-> "nil", dest |-> [given EXCEPT !.val = after]]

\* Rows.StructScan(dest) into the record type with the unexported field.
RowsStructScanUnexported(preset) ==
  LET r == StructScanUnexported(rows, current,
                                IF preset THEN PresetUnexported ELSE ZeroUnexported)
  IN
  /\ ret' = [op |-> "StructScan", at |-> current, ok |-> r.err = "nil", err |-> r.err]
  /\ dest' = r.dest
  /\ UNCHANGED <<rows, columns, current, closed, nextCalls>>
  /\ UNCHANGED nonRowsVars

\* A record type with a field of a kind convertAssign has no case for,
\*   struct { ID int `db:"id"`; Name time.Time }.
ZeroUnregistered == [ID |-> Zero("int"), Name |-> Zero("time.Time")]
PresetUnregistered == [ID |-> Preset("int"), Name |-> Preset("time.Time")]

\* StructScan(dest) with dest a pointer to that record type, holding old:
\* field ID is converted first, then field Name when the row has column
\* "name".
StructScanUnregistered(rs, c, old) ==
  LET given == [kind |-> "unregistered", types |-> <<>>, old |-> old, val |-> old]
      row == rs[c + 1]
      first == convertAssign("int", row["id"], old.ID)
      after == IF "id" \in DOMAIN row THEN [old EXCEPT !.ID = first.val] ELSE old
      second == convertAssign("time.Time", row["name"], old.Name)
  IN  IF c < 0 \/ c >= Len(rs)
        THEN [err |-> ErrClosed, dest |-> given]
      ELSE IF "id" \in DOMAIN row /\ first.err # "nil"
        THEN [err |-> "sql: StructScan error on field ID: " \o first.err,
              dest |-> [given EXCEPT !.val = after]]
      ELSE IF "name" \in DOMAIN row /\ second.err # "nil"
        THEN [err |-> "sql: StructScan error on field Name: " \o second.err,
              dest |-> [given EXCEPT !.val = after]]
      ELSE IF "name" \in DOMAIN row
        THEN [err |-> "nil", dest |-> [given EXCEPT !.val = [after EXCEPT !.Name = second.val]]]
      ELSE [err |-> "nil", dest |-> [given EXCEPT !.val = after]]

\* Rows.StructScan(dest) into the record type with the time.Time field.
RowsStructScanUnregistered(preset) ==
  LET r == StructScanUnregistered(rows, current,
                                  IF preset THEN PresetUnregistered ELSE ZeroUnregistered)
  IN
  /\ ret' = [op |-> "StructScan", at |-> current, ok |-> r.err = "nil", err |-> r.err]
  /\ dest' = r.dest
  /\ UNCHANGED <<rows, columns, current, closed, nextCalls>>
  /\ UNCHANGED nonRowsVars

\* The rows after position c.
Remaining(c) == IF c + 1 < Len(rows) THEN SubSeq(rows, c + 2, Len(rows)) ELSE <<>>

\* A Go slice of records: nil, or a backing array with its elements.
NilSlice == [isNil |-> TRUE, elems |-> <<>>]
MakeSlice(elems) == [isNil |-> FALSE, elems |-> elems]

\* The slices a caller passes to StructScanAll.
SlicePool == [nilSlice |-> NilSlice, emptySlice |-> MakeSlice(<<>>),
              presetSlice |-> MakeSlice(<<PresetRecord>>)]

\* The loop "for r.Next()" of StructScanAll over the rows rs, entered with
\* r.current = c, the slice acc and count k: what it returns, the slice, the
\* position and the number of calls of Next it made.
RECURSIVE ScanAllLoop(_, _, _, _)
ScanAllLoop(rs, c, acc, k) ==
  IF ~(c + 1 < Len(rs))
    THEN [err |-> "nil", slice |-> acc, current |-> c + 1, nexts |-> k + 1]
  ELSE LET r == ScanRecord(rs[c + 2], ZeroRecord)
       IN  IF r.err # "nil"
             THEN [err |-> "StructScan failed at index " \o ToString(k) \o ": " \o r.err,
                   slice |-> acc, current |-> c + 1, nexts |-> k + 1]
             ELSE ScanAllLoop(rs, c + 1, MakeSlice(Append(acc.elems, r.val)), k + 1)

\* Rows.StructScanAll(dest): dest is a pointer to a slice of records
\* ("nilSlice", "emptySlice", "presetSlice"), a pointer to something else
\* ("ptr") or no pointer ("value").
RowsStructScanAll(destKind) ==
  LET other == [kind |-> "other", types |-> <<>>, old |-> <<>>, val |-> <<>>]
  IN
  IF destKind = "value"
    THEN /\ ret' = [op |-> "StructScanAll", at |-> current, ok |-> FALSE, err |-> ErrNotPtr]
         /\ dest' = other
         /\ UNCHANGED <<rows, columns, current, closed, nextCalls>>
         /\ UNCHANGED nonRowsVars
  ELSE IF destKind = "ptr"
    THEN /\ ret' = [op |-> "StructScanAll", at |-> current, ok |-> FALSE, err |-> ErrNotSlice]
         /\ dest' = other
         /\ UNCHANGED <<rows, columns, current, closed, nextCalls>>
         /\ UNCHANGED nonRowsVars
  ELSE LET r == ScanAllLoop(rows, current, SlicePool[destKind], 0)
       IN  /\ nextCalls + Len(Remaining(current)) < MaxNextCalls
           /\ current' = r.current
           /\ nextCalls' = nextCalls + r.nexts
           /\ ret' = [op |-> "StructScanAll", at |-> current, ok |-> r.err = "nil",
                      err |-> r.err]
           /\ dest' = [kind |-> "slice", types |-> <<>>, old |-> SlicePool[destKind],
                       val |-> r.slice]
           /\ UNCHANGED <<rows, columns, closed>>
           /\ UNCHANGED nonRowsVars

RowsStep ==
  \/ RowsNext
  \/ RowsClose
  \/ \E types \in ScanDestPool, preset \in BOOLEAN : RowsScan(types, preset)
  \/ \E isStructPtr, preset \in BOOLEAN : RowsStructScan(isStructPtr, preset)
  \/ \E preset \in BOOLEAN : RowsStructScanUnexported(preset)
  \/ \E preset \in BOOLEAN : RowsStructScanUnregistered(preset)
  \/ \E destKind \in DOMAIN SlicePool \cup {"ptr", "value"} : RowsStructScanAll(destKind)

SpecRows == RowsInit /\ [][RowsStep]_vars

(***************************************************************************)
(* convertAssign on its own: one call on one destination.                  *)
(***************************************************************************)
\* The wire values a call is given.
WirePool ==
  { Nil, Float64(250), Float64(29), Float64(-29), Float64(0), Float64(-5),
    Str("25"), Str("25abc"), Str("abc"), Str("-7"), Str(" 42"), Str("2.9"),
    Str("1_0"), Str(""), Bool(TRUE), Bool(FALSE), EmptyArray }

ConvInit ==
  /\ ExecInit /\ CallIdle /\ RowsIdle /\ RespIdle /\ ParseIdle /\ RestIdle
  /\ \E kind \in DestKinds, src \in WirePool, preset \in BOOLEAN :
       LET old == IF preset THEN Preset(kind) ELSE Zero(kind)
       IN  conv = [NoConv EXCEPT !.kind = kind, !.src = src, !.old = old,
                                 !.val = old]

\* The call: conv.val is what the destination holds afterwards.
ConvCall ==
  /\ conv.kind # "none" /\ ~conv.done
  /\ LET r == convertAssign(conv.kind, conv.src, conv.old)
     IN  conv' = [conv EXCEPT !.done = TRUE, !.err = r.err, !.val = r.val]
  /\ UNCHANGED nonConvVars

SpecConv == ConvInit /\ [][ConvCall]_vars

(***************************************************************************)
(* The response envelope utils.APIResponse and the operations on it.       *)
(***************************************************************************)
\* The most rows the result of a response holds.
MaxRespRows == 2

\* What encoding/json leaves in a field that is absent or has another type
\* than the one the code asserts.
Absent == [kind |-> "absent"]

\* The rows of a response: objects, arrays or, off format, something else.
KeyedRow(r) == [kind |-> "map", val |-> r]
PositionalRow(v) == [kind |-> "array", val |-> v]
WireRowPool ==
  { KeyedRow([id |-> Float64(10), name |-> Str("ann")]),
    KeyedRow([id |-> Str("abc"), extra |-> Bool(TRUE)]),
    PositionalRow(<<Float64(20), Str("bob")>>),
    PositionalRow(<<Float64(40)>>),
    PositionalRow(<<>>),
    [kind |-> "string", val |-> <<>>] }

\* The columns field: absent, or a list whose entries are strings or, off
\* format, something else.
WireColumnsPool ==
  { Absent,
    [kind |-> "array", items |-> <<Str("id"), Str("name")>>],
    [kind |-> "array", items |-> <<Str("id"), Str("id")>>],
    [kind |-> "array", items |-> <<Str("id"), Float64(50), Str("name")>>] }

\* The meta block.
WireMetaPool ==
  { [kind |-> "map", val |-> [last_row_id |-> Float64(1230), changes |-> Float64(10),
                              rows_written |-> Float64(20)]],
    [kind |-> "map", val |-> [rows_written |-> Float64(20)]],
    [kind |-> "map", val |-> [changes |-> Str("1"), rows_written |-> Float64(20)]],
    [kind |-> "map", val |-> [last_row_id |-> Float64(-15)]] }

ResultItem(results, meta) == [kind |-> "map", results |-> results, meta |-> meta]
ResultsBlock(cols, rs) == [kind |-> "map", columns |-> cols, rows |-> rs]
ResultArray(items) == [kind |-> "array", items |-> items]

\* The result payloads: the malformed ones, then every rows list under every
\* columns list, then the meta blocks.
ResultPool ==
  { [kind |-> "object", items |-> <<>>],
    ResultArray(<<>>),
    ResultArray(<<[kind |-> "string", results |-> Absent, meta |-> Absent]>>),
    ResultArray(<<ResultItem(Absent, Absent)>>),
    ResultArray(<<ResultItem(ResultsBlock(Absent, Absent), Absent)>>) }
  \cup { ResultArray(<<ResultItem(ResultsBlock(cols, [kind |-> "array", items |-> rs]),
                                  Absent)>>) :
           cols \in WireColumnsPool, rs \in SeqsUpTo(WireRowPool, MaxRespRows) }
  \cup { ResultArray(<<ResultItem(ResultsBlock(Absent, [kind |-> "array", items |-> <<>>]),
                                  meta)>>) :
           meta \in WireMetaPool }

\* The envelopes: a successful one carries no error.
ResponsePool ==
  { [success |-> TRUE, errors |-> <<>>, result |-> res] : res \in ResultPool }
  \cup { [success |-> FALSE, errors |-> errs, result |-> res] :
           errs \in {<<>>, <<"e1">>, <<"e1", "e2">>}, res \in ResultPool }

RespInit ==
  /\ ExecInit /\ CallIdle /\ RowsIdle /\ ConvIdle /\ ParseIdle /\ RestIdle
  /\ resp \in ResponsePool
  /\ hasRows = FALSE
  /\ result = NoResult

\* The API error reporting the last message.
APIError_LastMessage(r) ==
  IF Len(r.errors) > 0 THEN "api error: " \o r.errors[Len(r.errors)]
                       ELSE "api error: unknown"

\* The error ToRows and ToResult return for an envelope with success=false.
APIError(r) ==
  IF Len(r.errors) > 0 THEN "api error: " \o r.errors[1]
                       ELSE "api error: unknown"

ErrNotArray == "unexpected result format: not an array"
ErrItemFormat == "unexpected result item format"
ErrMissingResults == "missing results map"
ErrNoRows == "sql: no rows in result set"
ErrRowWidth(i, got, want) ==
  "row " \o ToString(i) \o " has " \o ToString(got) \o " values but expected "
    \o ToString(want) \o " columns"
ErrRowType(i, type) == "row " \o ToString(i) \o " has unexpected type: " \o type

\* The names ToRows extracts from the columns field: the string entries.
RECURSIVE StringEntries(_)
StringEntries(items) ==
  IF Len(items) = 0 THEN <<>>
  ELSE IF Head(items).t = "string"
    THEN <<Head(items).s>> \o StringEntries(Tail(items))
  ELSE StringEntries(Tail(items))

\* The map ToRows builds from a positional row: rowMap[col] = v[j] for j in
\* column order, so the last column of a name sets its value.
PositionalMap(cols, v) ==
  [c \in Range(cols) |->
     v[CHOOSE j \in 1..Len(cols) :
         cols[j] = c /\ \A k \in 1..Len(cols) : cols[k] = c => k <= j]]

\* The loop of ToRows over the rows.
RowMaps(items, cols) ==
  LET bad == {i \in 1..Len(items) :
                \/ items[i].kind \notin {"map", "array"}
                \/ items[i].kind = "array" /\ Len(items[i].val) # Len(cols)}
  IN  IF bad = {}
        THEN [err |-> "nil",
              rows |-> [i \in 1..Len(items) |->
                          IF items[i].kind = "map" THEN items[i].val
                          ELSE PositionalMap(cols, items[i].val)]]
      ELSE IF items[First(bad)].kind = "array"
        THEN [err |-> ErrRowWidth(First(bad) - 1, Len(items[First(bad)].val), Len(cols)),
              rows |-> <<>>]
      ELSE [err |-> ErrRowType(First(bad) - 1, items[First(bad)].kind), rows |-> <<>>]

\* APIResponse.ToRows: the error, or the rows and the columns NewRows is given.
ToRows(r) ==
  LET fail(e) == [err |-> e, rows |-> <<>>, columns |-> <<>>]
      empty == [err |-> "nil", rows |-> <<>>, columns |-> <<>>]
  IN  IF ~r.success THEN fail(APIError(r))
      ELSE IF r.result.kind # "array" THEN fail(ErrNotArray)
      ELSE IF Len(r.result.items) = 0 THEN empty
      ELSE IF r.result.items[1].kind # "map" THEN fail(ErrItemFormat)
      ELSE IF r.result.items[1].results.kind # "map" THEN fail(ErrMissingResults)
      ELSE IF r.result.items[1].results.rows.kind # "array" THEN empty
      ELSE LET block == r.result.items[1].results
               cols == IF block.columns.kind = "array"
                         THEN StringEntries(block.columns.items) ELSE <<>>
               maps == RowMaps(block.rows.items, cols)
           IN  IF maps.err # "nil" THEN fail(maps.err)
               ELSE [err |-> "nil", rows |-> maps.rows, columns |-> cols]

\* APIResponse.ToRows
RespToRows ==
  LET r == ToRows(resp)
  IN
  /\ resp.result.kind # "none"
  /\ IF r.err # "nil"
       THEN /\ ret' = [op |-> "ToRows", at |-> -1, ok |-> FALSE, err |-> r.err]
            /\ UNCHANGED <<rows, columns, current, closed, nextCalls, hasRows>>
       ELSE /\ ret' = [op |-> "ToRows", at |-> -1, ok |-> TRUE, err |-> "nil"]
            /\ rows' = r.rows
            /\ columns' \in NewRows(r.rows, r.columns)
            /\ current' = -1
            /\ closed' = FALSE
            /\ nextCalls' = 0
            /\ hasRows' = TRUE
  /\ UNCHANGED <<dest, resp, result>>
  /\ UNCHANGED nonRespVars

\* The value of a meta entry as an int64: 0 unless it is a number.
MetaInt(meta, key) ==
  IF key \in DOMAIN meta /\ meta[key].t = "float64"
    THEN TruncateFloat(meta[key].n) ELSE 0

NewResult(lastInsertId, rowsAffected) ==
  [lastInsertId |-> lastInsertId, rowsAffected |-> rowsAffected, isNil |-> FALSE]

\* APIResponse.ToResult: the error and the Result.
ToResult(r) ==
  LET fail(e) == [err |-> e, result |-> NoResult]
  IN  IF ~r.success THEN fail(APIError(r))
      ELSE IF r.result.kind # "array" THEN fail(ErrNotArray)
      ELSE IF Len(r.result.items) = 0 THEN [err |-> "nil", result |-> NewResult(0, 0)]
      ELSE IF r.result.items[1].kind # "map" THEN fail(ErrItemFormat)
      ELSE IF r.result.items[1].meta.kind # "map"
        THEN [err |-> "nil", result |-> NewResult(0, 0)]
      ELSE LET meta == r.result.items[1].meta.val
           IN  [err |-> "nil",
                result |-> NewResult(MetaInt(meta, "last_row_id"),
                                     IF "changes" \in DOMAIN meta
                                       THEN MetaInt(meta, "changes")
                                       ELSE MetaInt(meta, "rows_written"))]

\* APIResponse.ToResult
RespToResult ==
  LET r == ToResult(resp)
  IN
  /\ resp.result.kind # "none"
  /\ ret' = [op |-> "ToResult", at |-> -1, ok |-> r.err = "nil", err |-> r.err]
  /\ result' = r.result
  /\ UNCHANGED <<rows, columns, current, closed, nextCalls, dest, resp, hasRows>>
  /\ UNCHANGED nonRespVars

\* Get scanning the row after the first.
RespGet_SecondRow(isStructPtr, preset) ==
  LET r == ToRows(resp)
      old == IF preset THEN PresetRecord ELSE ZeroRecord
      given == IF isStructPtr
                 THEN [kind |-> "record", types |-> <<>>, old |-> old, val |-> old]
                 ELSE [kind |-> "other", types |-> <<>>, old |-> <<>>, val |-> <<>>]
  IN
  /\ resp.result.kind # "none"
  /\ IF r.err # "nil"
       THEN /\ ret' = [op |-> "Get", at |-> -1, ok |-> FALSE, err |-> r.err]
            /\ dest' = given
            /\ UNCHANGED <<rows, columns, current, closed, nextCalls>>
       ELSE /\ rows' = <<>>
            /\ columns' \in NewRows(r.rows, r.columns)
            /\ closed' = TRUE
            /\ current' = 1
            /\ nextCalls' = 2
            /\ IF ~(1 < Len(r.rows))
                 THEN /\ ret' = [op |-> "Get", at |-> -1, ok |-> FALSE, err |-> ErrNoRows]
                      /\ dest' = given
                 ELSE LET s == StructScan(r.rows, 1, isStructPtr, old)
                      IN  /\ ret' = [op |-> "Get", at |-> -1, ok |-> s.err = "nil",
                                     err |-> s.err]
                          /\ dest' = s.dest
  /\ hasRows' = FALSE
  /\ UNCHANGED <<resp, result>>
  /\ UNCHANGED nonRespVars

\* APIResponse.Get(dest), which Client.Get ends with: the cursor it makes is
\* advanced once, scanned and closed when Get returns.
RespGet(isStructPtr, preset) ==
  LET r == ToRows(resp)
      old == IF preset THEN PresetRecord ELSE ZeroRecord
      given == IF isStructPtr
                 THEN [kind |-> "record", types |-> <<>>, old |-> old, val |-> old]
                 ELSE [kind |-> "other", types |-> <<>>, old |-> <<>>, val |-> <<>>]
  IN
  /\ resp.result.kind # "none"
  /\ IF r.err # "nil"
       THEN /\ ret' = [op |-> "Get", at |-> -1, ok |-> FALSE, err |-> r.err]
            /\ dest' = given
            /\ UNCHANGED <<rows, columns, current, closed, nextCalls>>
       ELSE /\ rows' = <<>>
            /\ columns' \in NewRows(r.rows, r.columns)
            /\ closed' = TRUE
            /\ current' = 0
            /\ nextCalls' = 1
            /\ IF ~(0 < Len(r.rows))
                 THEN /\ ret' = [op |-> "Get", at |-> -1, ok |-> FALSE, err |-> ErrNoRows]
                      /\ dest' = given
                 ELSE LET s == StructScan(r.rows, 0, isStructPtr, old)
                      IN  /\ ret' = [op |-> "Get", at |-> -1, ok |-> s.err = "nil",
                                     err |-> s.err]
                          /\ dest' = s.dest
  /\ hasRows' = FALSE
  /\ UNCHANGED <<resp, result>>
  /\ UNCHANGED nonRespVars

\* APIResponse.StructScanAll(dest), which Client.Select ends with.
RespStructScanAll(destKind) ==
  LET r == ToRows(resp)
      other == [kind |-> "other", types |-> <<>>, old |-> <<>>, val |-> <<>>]
      given == IF destKind \in DOMAIN SlicePool
                 THEN [kind |-> "slice", types |-> <<>>, old |-> SlicePool[destKind],
                       val |-> SlicePool[destKind]]
                 ELSE other
  IN
  /\ resp.result.kind # "none"
  /\ IF r.err # "nil"
       THEN /\ ret' = [op |-> "APIResponse.StructScanAll", at |-> -1, ok |-> FALSE,
                       err |-> r.err]
            /\ dest' = given
            /\ UNCHANGED <<rows, columns, current, closed, nextCalls>>
       ELSE /\ rows' = <<>>
            /\ columns' \in NewRows(r.rows, r.columns)
            /\ closed' = TRUE
            /\ IF destKind \notin DOMAIN SlicePool
                 THEN /\ ret' = [op |-> "APIResponse.StructScanAll", at |-> -1, ok |-> FALSE,
                                 err |-> IF destKind = "value" THEN ErrNotPtr ELSE ErrNotSlice]
                      /\ dest' = other
                      /\ current' = -1
                      /\ nextCalls' = 0
                 ELSE LET s == ScanAllLoop(r.rows, -1, SlicePool[destKind], 0)
                      IN  /\ ret' = [op |-> "APIResponse.StructScanAll", at |-> -1,
                                     ok |-> s.err = "nil", err |-> s.err]
                          /\ dest' = [given EXCEPT !.val = s.slice]
                          /\ current' = s.current
                          /\ nextCalls' = s.nexts
  /\ hasRows' = FALSE
  /\ UNCHANGED <<resp, result>>
  /\ UNCHANGED nonRespVars

\* The caller works on the envelope, or on the cursor ToRows gave it.
RespStep ==
  \/ RespToRows
  \/ RespToResult
  \/ \E isStructPtr, preset \in BOOLEAN : RespGet(isStructPtr, preset)
  \/ \E destKind \in DOMAIN SlicePool \cup {"ptr", "value"} : RespStructScanAll(destKind)
  \/ hasRows /\ RowsNext
  \/ hasRows /\ \E n \in {0, 2} : RowsScan([i \in 1..n |-> "any"], FALSE)

SpecResp == RespInit /\ [][RespStep]_vars

(***************************************************************************)
(* The migration parser (migrations/parser.go).  A text is the sequence of *)
(* its characters.                                                         *)
(***************************************************************************)
\* The most lines a text has.
MaxLines == 4

\* "-- +migrate Up"
DirectiveUp ==
  <<"-", "-", " ", "+", "m", "i", "g", "r", "a", "t", "e", " ", "U", "p">>

\* "-- +migrate Down"
DirectiveDown ==
  <<"-", "-", " ", "+", "m", "i", "g", "r", "a", "t", "e", " ", "D", "o",
    "w", "n">>

\* "-- +migrate StatementBegin"
DirectiveStatementBegin ==
  <<"-", "-", " ", "+", "m", "i", "g", "r", "a", "t", "e", " ", "S", "t",
    "a", "t", "e", "m", "e", "n", "t", "B", "e", "g", "i", "n">>

\* "-- +migrate StatementEnd"
DirectiveStatementEnd ==
  <<"-", "-", " ", "+", "m", "i", "g", "r", "a", "t", "e", " ", "S", "t",
    "a", "t", "e", "m", "e", "n", "t", "E", "n", "d">>

\* "notransaction"
NoTransaction ==
  <<"n", "o", "t", "r", "a", "n", "s", "a", "c", "t", "i", "o", "n">>

\* "-- +migrate Up\nCREATE TABLE t(x);\n-- +migrate Down\nDROP TABLE t;\n"
ExampleText ==
  <<"-", "-", " ", "+", "m", "i", "g", "r", "a", "t", "e", " ", "U", "p",
    "\n", "C", "R", "E", "A", "T", "E", " ", "T", "A", "B", "L", "E", " ",
    "t", "(", "x", ")", ";", "\n", "-", "-", " ", "+", "m", "i", "g", "r",
    "a", "t", "e", " ", "D", "o", "w", "n", "\n", "D", "R", "O", "P", " ",
    "T", "A", "B", "L", "E", " ", "t", ";", "\n">>

\* The lines the texts are made of.
LinePool ==
  { DirectiveUp,
    DirectiveDown,
    DirectiveUp \o <<" ">> \o NoTransaction,
    DirectiveDown \o <<" ">> \o NoTransaction,
    DirectiveStatementBegin,
    DirectiveStatementEnd,
    <<"a", ";", " ", "b", ";">>,
    <<>> }

\* The text made of the lines ls: each line ends with a newline, the last
\* one only when nl.
RECURSIVE Unlines(_, _)
Unlines(ls, nl) ==
  IF Len(ls) = 0 THEN <<>>
  ELSE IF Len(ls) = 1 THEN Head(ls) \o (IF nl THEN <<"\n">> ELSE <<>>)
  ELSE Head(ls) \o <<"\n">> \o Unlines(Tail(ls), nl)

TextPool ==
  {ExampleText}
    \cup {Unlines(ls, nl) : ls \in SeqsUpTo(LinePool, MaxLines), nl \in BOOLEAN}

\* The lines bufio.Scanner yields for a text, each shorter than the
\* scanner's token limit: the text is cut at each newline, a carriage return
\* before it is dropped, and what follows the last newline is a line when it
\* is not empty.
RECURSIVE ScanLines(_)
ScanLines(text) ==
  LET nls == {i \in 1..Len(text) : text[i] = "\n"}
      dropCR(l) == IF Len(l) > 0 /\ l[Len(l)] = "\r" THEN SubSeq(l, 1, Len(l) - 1) ELSE l
  IN  IF Len(text) = 0 THEN <<>>
      ELSE IF nls = {} THEN <<dropCR(text)>>
      ELSE <<dropCR(SubSeq(text, 1, First(nls) - 1))>>
             \o ScanLines(SubSeq(text, First(nls) + 1, Len(text)))

\* strings.HasPrefix
HasPrefix(s, prefix) ==
  Len(s) >= Len(prefix) /\ SubSeq(s, 1, Len(prefix)) = prefix

\* strings.Contains
Contains(s, substr) ==
  \E i \in 1..(Len(s) - Len(substr) + 1) : SubSeq(s, i, i + Len(substr) - 1) = substr

\* The characters strings.TrimSpace removes.
WhiteSpace == {" ", "\t", "\n", "\r"}

RECURSIVE TrimLeft(_)
TrimLeft(s) ==
  IF Len(s) > 0 /\ Head(s) \in WhiteSpace THEN TrimLeft(Tail(s)) ELSE s

RECURSIVE TrimRight(_)
TrimRight(s) ==
  IF Len(s) > 0 /\ s[Len(s)] \in WhiteSpace
    THEN TrimRight(SubSeq(s, 1, Len(s) - 1)) ELSE s

\* Trimming at the end of the text only.
TrimSpace_RightOnly(s) == TrimRight(s)

\* strings.TrimSpace
TrimSpace(s) == TrimRight(TrimLeft(s))

\* splitSQLStatements: strings.Split(sql, ";")
RECURSIVE splitSQLStatements(_)
splitSQLStatements(sql) ==
  LET semis == {i \in 1..Len(sql) : sql[i] = ";"}
  IN  IF semis = {} THEN <<sql>>
      ELSE <<SubSeq(sql, 1, First(semis) - 1)>>
             \o splitSQLStatements(SubSeq(sql, First(semis) + 1, Len(sql)))

\* The loop of appendStatement: the trimmed fragments that are not empty.
RECURSIVE TrimmedStatements(_)
TrimmedStatements(stmts) ==
  IF Len(stmts) = 0 THEN <<>>
  ELSE IF TrimSpace(Head(stmts)) = <<>> THEN TrimmedStatements(Tail(stmts))
  ELSE <<TrimSpace(Head(stmts))>> \o TrimmedStatements(Tail(stmts))

\* appendStatement putting the statements in the list of the other direction.
appendStatement_OtherList(p, dir, sql) ==
  IF dir = Up
    THEN [p EXCEPT !.DownStatements = @ \o TrimmedStatements(splitSQLStatements(sql))]
    ELSE [p EXCEPT !.UpStatements = @ \o TrimmedStatements(splitSQLStatements(sql))]

\* appendStatement(p, dir, sql): the ParsedMigration afterwards.
appendStatement(p, dir, sql) ==
  IF dir = Up
    THEN [p EXCEPT !.UpStatements = @ \o TrimmedStatements(splitSQLStatements(sql))]
    ELSE [p EXCEPT !.DownStatements = @ \o TrimmedStatements(splitSQLStatements(sql))]

\* The flush before a directive and at end of input.
Flush(f) ==
  IF Len(f.buf) > 0 THEN appendStatement(f.p, f.currentDirection, f.buf) ELSE f.p

NoMigration ==
  [Id |-> "", Up |-> <<>>, Down |-> <<>>, DisableTransactionUp |-> FALSE,
   DisableTransactionDown |-> FALSE]

\* ParseMigration(id, r) has been called and parseMigration is about to scan
\* the first line.
ParseInit ==
  /\ ExecInit /\ CallIdle /\ RowsIdle /\ ConvIdle /\ RespIdle /\ RestIdle
  /\ \E text \in TextPool :
       parser = [pc |-> "scan", id |-> "1_init", text |-> text,
                 rest |-> ScanLines(text), currentDirection |-> Up, buf |-> <<>>,
                 p |-> [UpStatements |-> <<>>, DownStatements |-> <<>>,
                        DisableTransactionUp |-> FALSE,
                        DisableTransactionDown |-> FALSE],
                 m |-> NoMigration, err |-> "nil"]

\* The loop of parseMigration treating the StatementBegin and StatementEnd
\* lines as text.
ParseLine_StatementLinesKept ==
  /\ parser.pc = "scan" /\ Len(parser.rest) > 0
  /\ LET line == Head(parser.rest)
         next == [parser EXCEPT !.rest = Tail(parser.rest)]
     IN  parser' =
           IF HasPrefix(line, DirectiveUp)
             THEN [next EXCEPT !.p = [Flush(parser) EXCEPT
                                        !.DisableTransactionUp =
                                           @ \/ Contains(line, NoTransaction)],
                               !.buf = <<>>,
                               !.currentDirection = Up]
           ELSE IF HasPrefix(line, DirectiveDown)
             THEN [next EXCEPT !.p = [Flush(parser) EXCEPT
                                        !.DisableTransactionDown =
                                           @ \/ Contains(line, NoTransaction)],
                               !.buf = <<>>,
                               !.currentDirection = Down]
           ELSE [next EXCEPT !.buf = (IF Len(@) > 0 THEN @ \o <<"\n">> ELSE @) \o line]
  /\ UNCHANGED nonParseVars

\* One turn of the loop "for scanner.Scan()" of parseMigration.
ParseLine ==
  /\ parser.pc = "scan" /\ Len(parser.rest) > 0
  /\ LET line == Head(parser.rest)
         next == [parser EXCEPT !.rest = Tail(parser.rest)]
     IN  parser' =
           IF HasPrefix(line, DirectiveUp)
             THEN [next EXCEPT !.p = [Flush(parser) EXCEPT
                                        !.DisableTransactionUp =
                                           @ \/ Contains(line, NoTransaction)],
                               !.buf = <<>>,
                               !.currentDirection = Up]
           ELSE IF HasPrefix(line, DirectiveDown)
             THEN [next EXCEPT !.p = [Flush(parser) EXCEPT
                                        !.DisableTransactionDown =
                                           @ \/ Contains(line, NoTransaction)],
                               !.buf = <<>>,
                               !.currentDirection = Down]
           ELSE IF HasPrefix(line, DirectiveStatementBegin) THEN next
           ELSE IF HasPrefix(line, DirectiveStatementEnd) THEN next
           ELSE [next EXCEPT !.buf = (IF Len(@) > 0 THEN @ \o <<"\n">> ELSE @) \o line]
  /\ UNCHANGED nonParseVars

\* The scanner is out of lines: parseMigration flushes and returns p with a
\* nil error, its only return; ParseMigration wraps an error, or else builds
\* the Migration.
ParseReturn ==
  /\ parser.pc = "scan" /\ Len(parser.rest) = 0
  /\ LET p == Flush(parser)
         err == "nil"
     IN  parser' =
           IF err # "nil"
             THEN [parser EXCEPT
                     !.pc = "done",
                     !.p = p,
                     !.err = "Error parsing migration (" \o parser.id \o "): " \o err]
             ELSE [parser EXCEPT
                     !.pc = "done",
                     !.p = p,
                     !.m = [Id |-> parser.id, Up |-> p.UpStatements,
                            Down |-> p.DownStatements,
                            DisableTransactionUp |-> p.DisableTransactionUp,
                            DisableTransactionDown |-> p.DisableTransactionDown]]
  /\ UNCHANGED nonParseVars

ParseNext == ParseLine \/ ParseReturn

SpecParse == ParseInit /\ [][ParseNext]_vars

(***************************************************************************)
(* The Client and the ConnectionPool (client/pool.go) in front of the D1   *)
(* service.                                                                *)
(***************************************************************************)
\* The latest hour the clock reaches.
MaxNow == 2

\* The databases an account may hold and the uuid the service gave each.
DbNames == {"users_db", "products_db"}
Uuid == [users_db |-> "uuid-1", products_db |-> "uuid-2"]
\* The ids a caller passes to ConnectWithID.
IdPool == {"uuid-1", "uuid-9"}

\* The maximum cache age NewConnectionPool sets, in hours.
DefaultCacheAge == 24
\* The ages a caller passes to SetCacheAge.
CacheAgePool == {0, 1}

ErrNoDatabase == "no database connected, call ConnectDB first"
ErrNoCurrent == "no database connected, call Connect first"
ErrNotConnected(name) == "database " \o name \o " not connected, call Connect first"
ErrTransport == "transport error"
ErrListDatabases == "failed to list databases: " \o ErrTransport
ErrNotFound(name) == "database with name " \o name \o " not found"
ErrConnect(name, inner) == "failed to connect to database " \o name \o ": " \o inner
\* What the unchecked assertion resp.Result.([]interface{}) raises on an
\* envelope whose result is null.
PanicResultNil == "panic: interface conversion: interface {} is nil, not []interface {}"

\* What the service answers to a request: an envelope with success=true, an
\* envelope with success=false and a null result, or nothing (transport
\* error).
ServiceAnswers == {"accepted", "rejected", "transport"}

\* NewClient(accountID, apiToken)
NewClient(accountID, apiToken) ==
  IF accountID = "" \/ apiToken = "" THEN NoClient
  ELSE [isNil |-> FALSE, AccountID |-> accountID, APIToken |-> apiToken, DatabaseID |-> ""]

\* Client.ConnectDB(name) under the answer to ListDB: the error returned and
\* the DatabaseID the client holds afterwards.
ConnectDB(c, name, answer) ==
  IF answer = "transport" THEN [err |-> ErrListDatabases, id |-> c.DatabaseID]
  ELSE IF answer = "rejected" THEN [err |-> PanicResultNil, id |-> c.DatabaseID]
  ELSE IF name \in service THEN [err |-> "nil", id |-> Uuid[name]]
  ELSE [err |-> ErrNotFound(name), id |-> c.DatabaseID]

\* A request sent to the service for database id: DoRequest returns the
\* envelope with a nil error whatever its success field says.
DoRequest(answer) == IF answer = "transport" THEN ErrTransport ELSE "nil"

ClientInit ==
  /\ ExecInit /\ CallIdle /\ RowsIdle /\ ConvIdle /\ RespIdle /\ ParseIdle /\ ParamsIdle
  /\ overlap = FALSE /\ FlightIdle
  /\ service \in SUBSET DbNames
  /\ \E accountID \in {"", "acc"}, apiToken \in {"", "tok"} :
       /\ client = NewClient(accountID, apiToken)
       /\ cret = [op |-> "NewClient", args |-> <<accountID, apiToken>>, err |-> "nil",
                  db |-> "", used |-> FALSE, stale |-> FALSE]
  /\ pool = NoPool /\ now = 0 /\ lastConn = NoConn

\* Client.ConnectDB(name)
ClientConnectDB(name, answer) ==
  LET r == ConnectDB(client, name, answer)
  IN
  /\ ~client.isNil
  /\ client' = [client EXCEPT !.DatabaseID = r.id]
  /\ cret' = [op |-> "ConnectDB", args |-> <<name>>, err |-> r.err, db |-> "",
              used |-> FALSE, stale |-> FALSE]
  /\ lastConn' = IF r.err = "nil" THEN [name |-> name, id |-> r.id] ELSE lastConn
  /\ UNCHANGED <<service, pool, now>>
  /\ UNCHANGED nonConnVars

\* Client.Query, Client.CreateTable, Client.RemoveTable: the request goes to
\* the connected database.
ClientRequest_Unguarded(op, answer) ==
  /\ ~client.isNil
  /\ cret' = [op |-> op, args |-> <<>>, err |-> DoRequest(answer),
              db |-> client.DatabaseID, used |-> FALSE, stale |-> FALSE]
  /\ UNCHANGED <<service, client, pool, now, lastConn>>
  /\ UNCHANGED nonConnVars

ClientRequest(op, answer) ==
  /\ ~client.isNil
  /\ IF client.DatabaseID = ""
       THEN cret' = [op |-> op, args |-> <<>>, err |-> ErrNoDatabase, db |-> "",
                     used |-> FALSE, stale |-> FALSE]
       ELSE cret' = [op |-> op, args |-> <<>>, err |-> DoRequest(answer),
                     db |-> client.DatabaseID, used |-> FALSE, stale |-> FALSE]
  /\ UNCHANGED <<service, client, pool, now, lastConn>>
  /\ UNCHANGED nonConnVars

\* Client.CreateDB(name) and Client.DeleteDB(id), accepted by the service.
ClientCreateDB(name) ==
  /\ ~client.isNil
  /\ service' = service \cup {name}
  /\ cret' = [op |-> "CreateDB", args |-> <<name>>, err |-> "nil", db |-> "",
              used |-> FALSE, stale |-> FALSE]
  /\ UNCHANGED <<client, pool, now, lastConn>>
  /\ UNCHANGED nonConnVars

ClientDeleteDB(name) ==
  /\ ~client.isNil
  /\ service' = service \ {name}
  /\ cret' = [op |-> "DeleteDB", args |-> <<name>>, err |-> "nil", db |-> Uuid[name],
              used |-> FALSE, stale |-> FALSE]
  /\ UNCHANGED <<client, pool, now, lastConn>>
  /\ UNCHANGED nonConnVars

ClientOps == {"Query", "CreateTable", "RemoveTable"}

ClientStep ==
  \/ \E name \in DbNames, answer \in ServiceAnswers : ClientConnectDB(name, answer)
  \/ \E op \in ClientOps, answer \in ServiceAnswers : ClientRequest(op, answer)
  \/ \E name \in DbNames : ClientCreateDB(name)
  \/ \E name \in DbNames : ClientDeleteDB(name)

SpecClient == ClientInit /\ [][ClientStep]_vars

\* The cache of a pool: a map from names to entries.
EmptyConnections == [n \in {} |-> [DatabaseID |-> "", CachedAt |-> 0]]
Put(conns, name, entry) ==
  [n \in DOMAIN conns \cup {name} |-> IF n = name THEN entry ELSE conns[n]]
Delete(conns, name) == [n \in DOMAIN conns \ {name} |-> conns[n]]

\* time.Since(connInfo.CachedAt)
Age(entry) == now - entry.CachedAt

\* NewConnectionPool(accountID, apiToken) with both non-empty.
NewConnectionPool ==
  [connections |-> EmptyConnections, currentDB |-> "", maxCacheAge |-> DefaultCacheAge]

PoolInit ==
  /\ ExecInit /\ CallIdle /\ RowsIdle /\ ConvIdle /\ RespIdle /\ ParseIdle /\ ParamsIdle
  /\ overlap = FALSE /\ FlightIdle
  /\ service \in SUBSET DbNames
  /\ client = NoClient
  /\ pool = NewConnectionPool
  /\ now = 0
  /\ cret = [op |-> "NewConnectionPool", args |-> <<>>, err |-> "nil", db |-> "",
             used |-> FALSE, stale |-> FALSE]
  /\ lastConn = NoConn

\* Connect dropping the entry of the name when ConnectDB fails.
PoolConnect_EvictOnFailure(name, answer) ==
  LET cached == /\ name \in DOMAIN pool.connections
                /\ Age(pool.connections[name]) < pool.maxCacheAge
      fresh == [isNil |-> FALSE, AccountID |-> "acc", APIToken |-> "tok", DatabaseID |-> ""]
      r == ConnectDB(fresh, name, answer)
      called(err, used) ==
        [op |-> "Connect", args |-> <<name>>, err |-> err, db |-> "", used |-> used,
         stale |-> used /\ ~(Age(pool.connections[name]) < pool.maxCacheAge)]
  IN
  /\ IF cached
       THEN /\ pool' = [pool EXCEPT !.currentDB = name]
            /\ cret' = called("nil", TRUE)
            /\ lastConn' = [name |-> name, id |-> pool.connections[name].DatabaseID]
       ELSE IF r.err = "nil"
         THEN /\ pool' = [pool EXCEPT
                            !.connections = Put(@, name, [DatabaseID |-> r.id,
                                                          CachedAt |-> now]),
                            !.currentDB = name]
              /\ cret' = called("nil", FALSE)
              /\ lastConn' = [name |-> name, id |-> r.id]
       ELSE /\ cret' = called(IF r.err = PanicResultNil THEN r.err
                              ELSE ErrConnect(name, r.err), FALSE)
            /\ pool' = [pool EXCEPT !.connections = Delete(@, name)]
            /\ UNCHANGED lastConn
  /\ UNCHANGED <<service, client, now>>
  /\ UNCHANGED nonConnVars

\* ConnectionPool.Connect(dbName): from the cache when the entry is younger
\* than maxCacheAge, else through ConnectDB on a new Client.
PoolConnect(name, answer) ==
  LET cached == /\ name \in DOMAIN pool.connections
                /\ Age(pool.connections[name]) < pool.maxCacheAge
      fresh == [isNil |-> FALSE, AccountID |-> "acc", APIToken |-> "tok", DatabaseID |-> ""]
      r == ConnectDB(fresh, name, answer)
      called(err, used) ==
        [op |-> "Connect", args |-> <<name>>, err |-> err, db |-> "", used |-> used,
         stale |-> used /\ ~(Age(pool.connections[name]) < pool.maxCacheAge)]
  IN
  /\ IF cached
       THEN /\ pool' = [pool EXCEPT !.currentDB = name]
            /\ cret' = called("nil", TRUE)
            /\ lastConn' = [name |-> name, id |-> pool.connections[name].DatabaseID]
       ELSE IF r.err = "nil"
         THEN /\ pool' = [pool EXCEPT
                            !.connections = Put(@, name, [DatabaseID |-> r.id,
                                                          CachedAt |-> now]),
                            !.currentDB = name]
              /\ cret' = called("nil", FALSE)
              /\ lastConn' = [name |-> name, id |-> r.id]
       ELSE /\ cret' = called(IF r.err = PanicResultNil THEN r.err
                              ELSE ErrConnect(name, r.err), FALSE)
            /\ UNCHANGED <<pool, lastConn>>
  /\ UNCHANGED <<service, client, now>>
  /\ UNCHANGED nonConnVars

\* ConnectWithID leaving the current database as it is.
PoolConnectWithID_KeepCurrent(name, id) ==
  /\ pool' = [pool EXCEPT
                !.connections = Put(@, name, [DatabaseID |-> id, CachedAt |-> now])]
  /\ cret' = [op |-> "ConnectWithID", args |-> <<name, id>>, err |-> "nil", db |-> "",
              used |-> FALSE, stale |-> FALSE]
  /\ lastConn' = [name |-> name, id |-> id]
  /\ UNCHANGED <<service, client, now>>
  /\ UNCHANGED nonConnVars

\* ConnectionPool.ConnectWithID(dbName, databaseID)
PoolConnectWithID(name, id) ==
  /\ pool' = [pool EXCEPT
                !.connections = Put(@, name, [DatabaseID |-> id, CachedAt |-> now]),
                !.currentDB = name]
  /\ cret' = [op |-> "ConnectWithID", args |-> <<name, id>>, err |-> "nil", db |-> "",
              used |-> FALSE, stale |-> FALSE]
  /\ lastConn' = [name |-> name, id |-> id]
  /\ UNCHANGED <<service, client, now>>
  /\ UNCHANGED nonConnVars

\* The request a pool operation sends through a Client made for the entry.
PoolRequest(op, args, name, notThere, answer) ==
  /\ IF name \notin DOMAIN pool.connections
       THEN cret' = [op |-> op, args |-> args, err |-> notThere, db |-> "",
                     used |-> FALSE, stale |-> FALSE]
       ELSE LET entry == pool.connections[name]
            IN  cret' = [op |-> op, args |-> args,
                         err |-> IF entry.DatabaseID = "" THEN ErrNoDatabase
                                 ELSE DoRequest(answer),
                         db |-> entry.DatabaseID,
                         used |-> TRUE,
                         stale |-> ~(Age(entry) < pool.maxCacheAge)]
  /\ UNCHANGED <<service, client, pool, now, lastConn>>
  /\ UNCHANGED nonConnVars

\* The operations on the current database and those on a named one.
CurrentOps == {"Query", "Select", "Get", "Exec", "CreateTable", "RemoveTable"}
NamedOps == {"QueryDB", "CreateTableDB", "RemoveTableDB"}

\* ConnectionPool.Query, Select, Get, Exec, CreateTable, RemoveTable
PoolCurrentRequest(op, answer) ==
  PoolRequest(op, <<>>, pool.currentDB, ErrNoCurrent, answer)

\* ConnectionPool.QueryDB, CreateTableDB, RemoveTableDB
PoolNamedRequest(op, name, answer) ==
  PoolRequest(op, <<name>>, name, ErrNotConnected(name), answer)

\* ConnectionPool.ClearCache(dbName)
PoolClearCache(name) ==
  /\ pool' = [pool EXCEPT !.connections = Delete(@, name)]
  /\ cret' = [op |-> "ClearCache", args |-> <<name>>, err |-> "nil", db |-> "",
              used |-> FALSE, stale |-> FALSE]
  /\ lastConn' = IF lastConn.name = name THEN NoConn ELSE lastConn
  /\ UNCHANGED <<service, client, now>>
  /\ UNCHANGED nonConnVars

\* ConnectionPool.ClearAllCache()
PoolClearAllCache ==
  /\ pool' = [pool EXCEPT !.connections = EmptyConnections, !.currentDB = ""]
  /\ cret' = [op |-> "ClearAllCache", args |-> <<>>, err |-> "nil", db |-> "",
              used |-> FALSE, stale |-> FALSE]
  /\ lastConn' = NoConn
  /\ UNCHANGED <<service, client, now>>
  /\ UNCHANGED nonConnVars

\* ConnectionPool.SetCacheAge(duration)
PoolSetCacheAge(duration) ==
  /\ pool' = [pool EXCEPT !.maxCacheAge = duration]
  /\ cret' = [op |-> "SetCacheAge", args |-> <<>>, err |-> "nil", db |-> "",
              used |-> FALSE, stale |-> FALSE]
  /\ UNCHANGED <<service, client, now, lastConn>>
  /\ UNCHANGED nonConnVars

\* ConnectionPool.IsCached(dbName): used tells what it returned.
PoolIsCached(name) ==
  LET valid == /\ name \in DOMAIN pool.connections
               /\ Age(pool.connections[name]) < pool.maxCacheAge
  IN
  /\ cret' = [op |-> "IsCached", args |-> <<name>>, err |-> "nil", db |-> "",
              used |-> valid,
              stale |-> valid /\ ~(Age(pool.connections[name]) < pool.maxCacheAge)]
  /\ UNCHANGED <<service, client, pool, now, lastConn>>
  /\ UNCHANGED nonConnVars

\* An hour passes.
Tick ==
  /\ now < MaxNow
  /\ now' = now + 1
  /\ UNCHANGED <<service, client, pool, cret, lastConn>>
  /\ UNCHANGED nonConnVars

PoolStep ==
  \/ \E name \in DbNames, answer \in ServiceAnswers : PoolConnect(name, answer)
  \/ \E name \in DbNames, id \in IdPool : PoolConnectWithID(name, id)
  \/ \E op \in CurrentOps, answer \in ServiceAnswers : PoolCurrentRequest(op, answer)
  \/ \E op \in NamedOps, name \in DbNames, answer \in ServiceAnswers :
       PoolNamedRequest(op, name, answer)
  \/ \E name \in DbNames : PoolClearCache(name)
  \/ PoolClearAllCache
  \/ \E duration \in CacheAgePool : PoolSetCacheAge(duration)
  \/ \E name \in DbNames : PoolIsCached(name)
  \/ Tick

SpecPool == PoolInit /\ [][PoolStep]_vars

(***************************************************************************)
(* The pool shared by goroutines, within the first hour of the default     *)
(* cache age.  Connect, ConnectWithID, ClearCache and ClearAllCache hold   *)
(* p.mu for the whole call; a query operation holds it only while it reads *)
(* p.connections[p.currentDB], and sends its request after RUnlock.        *)
(***************************************************************************)
\* The operations the goroutines call on the current database.
SharedOps == {"Query", "Exec"}

\* p.mu.RLock(); connInfo, exists := p.connections[p.currentDB];
\* p.mu.RUnlock().  conn is history: the last connect that succeeded and was
\* not cleared, as of this read.
PoolQueryRead(g, op) ==
  LET name == pool.currentDB
      exists == name \in DOMAIN pool.connections
  IN
  /\ inflight[g].pc = "idle"
  /\ inflight' = [inflight EXCEPT ![g] =
                   [pc |-> "unlocked", op |-> op, name |-> name, exists |-> exists,
                    id |-> IF exists THEN pool.connections[name].DatabaseID ELSE "",
                    stale |-> exists /\ ~(Age(pool.connections[name]) < pool.maxCacheAge),
                    conn |-> lastConn]]
  /\ UNCHANGED <<execVars, callVars, rowsVars, convVars, respVars, parseVars, connVars,
                 paramVars, raceVars>>

\* The rest of a query operation looking the name it read up again.
PoolQuerySend_LooksUpAgain(g, answer) ==
  LET f == inflight[g]
      exists == f.name \in DOMAIN pool.connections
      id == IF exists THEN pool.connections[f.name].DatabaseID ELSE ""
  IN
  /\ f.pc = "unlocked"
  /\ cret' = IF ~exists
               THEN [op |-> f.op, args |-> <<>>, err |-> ErrNoCurrent, db |-> "",
                     used |-> FALSE, stale |-> FALSE]
               ELSE [op |-> f.op, args |-> <<>>,
                     err |-> IF id = "" THEN ErrNoDatabase ELSE DoRequest(answer),
                     db |-> id, used |-> TRUE, stale |-> f.stale]
  /\ inflight' = [inflight EXCEPT ![g] = NoFlight]
  /\ UNCHANGED <<service, client, pool, now, lastConn>>
  /\ UNCHANGED <<execVars, callVars, rowsVars, convVars, respVars, parseVars, paramVars,
                 raceVars>>

\* The rest of a query operation, outside the lock: the not-connected error
\* when the read found no entry, else the request through a Client made with
\* connInfo.DatabaseID.
PoolQuerySend(g, answer) ==
  LET f == inflight[g]
  IN
  /\ f.pc = "unlocked"
  /\ cret' = IF ~f.exists
               THEN [op |-> f.op, args |-> <<>>, err |-> ErrNoCurrent, db |-> "",
                     used |-> FALSE, stale |-> FALSE]
               ELSE [op |-> f.op, args |-> <<>>,
                     err |-> IF f.id = "" THEN ErrNoDatabase ELSE DoRequest(answer),
                     db |-> f.id, used |-> TRUE, stale |-> f.stale]
  /\ inflight' = [inflight EXCEPT ![g] = NoFlight]
  /\ UNCHANGED <<service, client, pool, now, lastConn>>
  /\ UNCHANGED <<execVars, callVars, rowsVars, convVars, respVars, parseVars, paramVars,
                 raceVars>>

SharedStep ==
  \/ \E name \in DbNames, answer \in ServiceAnswers : PoolConnect(name, answer)
  \/ \E name \in DbNames, id \in IdPool : PoolConnectWithID(name, id)
  \/ \E name \in DbNames : PoolClearCache(name)
  \/ PoolClearAllCache
  \/ \E g \in Goroutines, op \in SharedOps : PoolQueryRead(g, op)
  \/ \E g \in Goroutines, answer \in ServiceAnswers : PoolQuerySend(g, answer)

SpecShared == PoolInit /\ [][SharedStep]_vars

(***************************************************************************)
(* utils.ConvertParams: the arguments of Select, Get and Exec as strings.  *)
(***************************************************************************)
\* The most arguments of a call.
MaxArgs == 2

\* A Go value passed as an argument: its dynamic type t and its content, a
\* number n, a string s or a list v.  A float holds its value in tenths, a
\* time.Time its year, month, day, hour, minute and second, a map its one
\* key and value.
Arg(t, n, s, v) == [t |-> t, n |-> n, s |-> s, v |-> v]

SignedTypes == {"int", "int8", "int16", "int32", "int64"}
UnsignedTypes == {"uint", "uint8", "uint16", "uint32", "uint64"}
FloatTypes == {"float32", "float64"}

ArgPool ==
  { Arg("nil", 0, "", <<>>),
    Arg("string", 0, "Alice", <<>>),
    Arg("string", 0, "", <<>>),
    Arg("int", 25, "", <<>>),
    Arg("int8", -7, "", <<>>),
    Arg("int64", -1234567, "", <<>>),
    Arg("uint8", 255, "", <<>>),
    Arg("uint64", 0, "", <<>>),
    Arg("float64", 255, "", <<>>),
    Arg("float64", 10000000, "", <<>>),
    Arg("float32", -12500000, "", <<>>),
    Arg("bool", 1, "", <<>>),
    Arg("bool", 0, "", <<>>),
    Arg("time.Time", 0, "", <<2024, 1, 5, 9, 3, 7>>),
    Arg("time.Time", 0, "", <<987, 12, 31, 23, 59, 59>>),
    Arg("[]uint8", 0, "ab", <<>>),
    Arg("[]int", 0, "", <<1, -2>>),
    Arg("map[string]int", 1, "a", <<>>),
    Arg("*int", 0, "", <<>>),
    Arg("chan int", 0, "", <<>>) }

\* The decimal digits of a natural number, most significant first.
RECURSIVE DigitsOf(_)
DigitsOf(n) == IF n < 10 THEN <<n>> ELSE Append(DigitsOf(n \div 10), n % 10)

RECURSIVE DigitString(_)
DigitString(ds) ==
  IF Len(ds) = 0 THEN "" ELSE ToString(Head(ds)) \o DigitString(Tail(ds))

RECURSIVE DropTrailingZeros(_)
DropTrailingZeros(ds) ==
  IF Len(ds) > 1 /\ ds[Len(ds)] = 0
    THEN DropTrailingZeros(SubSeq(ds, 1, Len(ds) - 1)) ELSE ds

\* time.Time.Format("2006-01-02 15:04:05")
FormatTime(at) ==
  LET pad(n, w) == IF Len(DigitsOf(n)) >= w THEN ToString(n)
                   ELSE DigitString([i \in 1..(w - Len(DigitsOf(n))) |-> 0]) \o ToString(n)
  IN  pad(at[1], 4) \o "-" \o pad(at[2], 2) \o "-" \o pad(at[3], 2) \o " "
        \o pad(at[4], 2) \o ":" \o pad(at[5], 2) \o ":" \o pad(at[6], 2)

\* fmt.Sprintf("%v", f) for a float of the given tenths: the shortest digits,
\* in positional notation when the decimal exponent is below 6 and in
\* exponent notation from 1e+06 on.
FormatFloat_v(tenths) ==
  LET a == IF tenths < 0 THEN -tenths ELSE tenths
      sign == IF tenths < 0 THEN "-" ELSE ""
      whole == DigitsOf(a \div 10)
      exp == Len(whole) - 1
      mant == DropTrailingZeros(DigitsOf(a))
  IN  IF exp < 6
        THEN IF a % 10 = 0 THEN sign \o ToString(a \div 10)
             ELSE sign \o ToString(a \div 10) \o "." \o ToString(a % 10)
      ELSE sign \o ToString(mant[1])
             \o (IF Len(mant) > 1 THEN "." \o DigitString(Tail(mant)) ELSE "")
             \o "e+" \o (IF exp < 10 THEN "0" ELSE "") \o ToString(exp)

\* json.Marshal(arg) for the types that reach the default case: the error
\* and the text.
RECURSIVE JoinInts(_)
JoinInts(v) ==
  IF Len(v) = 0 THEN ""
  ELSE IF Len(v) = 1 THEN ToString(v[1])
  ELSE ToString(v[1]) \o "," \o JoinInts(Tail(v))

Marshal(arg) ==
  CASE arg.t = "[]int" -> [err |-> "nil", text |-> "[" \o JoinInts(arg.v) \o "]"]
    [] arg.t = "map[string]int" ->
         [err |-> "nil", text |-> "{\"" \o arg.s \o "\":" \o ToString(arg.n) \o "}"]
    [] arg.t = "*int" -> [err |-> "nil", text |-> "null"]
    [] OTHER -> [err |-> "json: unsupported type: " \o arg.t, text |-> ""]

\* The error of ConvertParams; the source words it in Chinese, "cannot
\* convert parameter #i (type:T): cause".
ErrConvertParam(i, type, cause) ==
  "cannot convert parameter #" \o ToString(i) \o " (type:" \o type \o "): " \o cause

\* The switch of ConvertParams on one argument: the error and the string.
ConvertParam(arg) ==
  CASE arg.t = "nil" -> [err |-> "nil", text |-> ""]
    [] arg.t = "string" -> [err |-> "nil", text |-> arg.s]
    [] arg.t \in SignedTypes \cup UnsignedTypes -> [err |-> "nil", text |-> ToString(arg.n)]
    [] arg.t \in FloatTypes -> [err |-> "nil", text |-> FormatFloat_v(arg.n)]
    [] arg.t = "bool" -> [err |-> "nil", text |-> IF arg.n = 1 THEN "1" ELSE "0"]
    [] arg.t = "time.Time" -> [err |-> "nil", text |-> FormatTime(arg.v)]
    [] arg.t = "[]uint8" -> [err |-> "nil", text |-> arg.s]
    [] OTHER -> Marshal(arg)

\* ConvertParams filling the result from the last argument to the first.
ConvertParams_Reversed(args) ==
  LET bad == {i \in 1..Len(args) : ConvertParam(args[i]).err # "nil"}
  IN  IF Len(args) = 0 THEN [err |-> "nil", out |-> <<>>, isNil |-> FALSE]
      ELSE IF bad # {}
        THEN [err |-> ErrConvertParam(First(bad) - 1, args[First(bad)].t,
                                      ConvertParam(args[First(bad)]).err),
              out |-> <<>>, isNil |-> TRUE]
      ELSE [err |-> "nil",
            out |-> [i \in 1..Len(args) |-> ConvertParam(args[Len(args) + 1 - i]).text],
            isNil |-> FALSE]

\* ConvertParams(args...): the error and the strings.
ConvertParams(args) ==
  LET bad == {i \in 1..Len(args) : ConvertParam(args[i]).err # "nil"}
  IN  IF Len(args) = 0 THEN [err |-> "nil", out |-> <<>>, isNil |-> FALSE]
      ELSE IF bad # {}
        THEN [err |-> ErrConvertParam(First(bad) - 1, args[First(bad)].t,
                                      ConvertParam(args[First(bad)]).err),
              out |-> <<>>, isNil |-> TRUE]
      ELSE [err |-> "nil",
            out |-> [i \in 1..Len(args) |-> ConvertParam(args[i]).text],
            isNil |-> FALSE]

ParamsInit ==
  /\ ExecInit /\ CallIdle /\ RowsIdle /\ ConvIdle /\ RespIdle /\ ParseIdle /\ ConnIdle
  /\ overlap = FALSE /\ FlightIdle
  /\ \E args \in SeqsUpTo(ArgPool, MaxArgs) :
       params = [args |-> args, done |-> FALSE, err |-> "nil", out |-> <<>>,
                 isNil |-> TRUE]

\* The call.
ParamsCall ==
  /\ ~params.done
  /\ LET r == ConvertParams(params.args)
     IN  params' = [params EXCEPT !.done = TRUE, !.err = r.err, !.out = r.out,
                                  !.isNil = r.isNil]
  /\ UNCHANGED nonParamVars

SpecParams == ParamsInit /\ [][ParamsCall]_vars

\* C26: an Up run writes the ledger row of a migration, and counts it, only
\* after the service accepted every Up statement of the migration; a
\* statement the service rejects (success=false) ends the run with an error
\* as a transport error does, so the ledger never gets the id of a migration
\* one of whose statements was rejected.
C26_RecordOnlyAccepted ==
  \A r \in Runs :
    LET f == run[r]
    IN  f.dir = Up =>
          \A i \in 1..Len(f.trace) :
            /\ (f.trace[i].op = "insert" /\ f.trace[i].res # "err") =>
                 \A j \in 1..(i - 1) :
                   (f.trace[j].op = "query" /\ f.trace[j].id = f.trace[i].id)
                     => f.trace[j].res = "ok"
            /\ (f.trace[i].op = "query" /\ f.trace[i].res = "rejected") =>
                 i = Len(f.trace) /\ f.pc = "done" /\ f.err.ctx = ApplyFailed

\* The same for transport errors alone: a statement for which client.Query
\* returns an error ends the run, and nothing is recorded for its migration.
RecordOnlyWithoutError ==
  \A r \in Runs :
    LET f == run[r]
    IN  \A i \in 1..Len(f.trace) :
          f.trace[i].res = "err" =>
            i = Len(f.trace) /\ f.pc = "done" /\ f.err.ctx = ApplyFailed

\* C29: with no other writer, the count ExecMax returns is the number of
\* ledger rows the run changed, ids inserted for Up and ids deleted for Down,
\* when the run succeeds and when it aborts with an error.
C29_CountIsLedgerChange ==
  \A r \in Runs :
    LET f == run[r]
    IN  (f.pc = "done" /\ Planned(f)) =>
          /\ f.dir = Up => f.count = Cardinality(Range(ledger) \ Range(f.applied))
          /\ f.dir = Down => f.count = Cardinality(Range(f.applied) \ Range(ledger))
          /\ f.dir = Up => Range(f.applied) \subseteq Range(ledger)
          /\ f.dir = Down => Range(ledger) \subseteq Range(f.applied)

\* The count is the number of migrations whose record statement came back
\* without an error, whether the service executed it or rejected it.
CountIsRecordsAnswered ==
  \A r \in Runs :
    LET f == run[r]
    IN  f.count = Cardinality({i \in 1..Len(f.trace) :
                                 f.trace[i].op \in {"insert", "delete"}
                                 /\ f.trace[i].res # "err"})

\* The count is the ledger change in every run in which the service rejected
\* no record statement.
CountIsLedgerChangeUnlessRejected ==
  \A r \in Runs :
    LET f == run[r]
    IN  (f.pc = "done" /\ Planned(f)
         /\ \A i \in 1..Len(f.trace) :
              f.trace[i].op \in {"insert", "delete"} => f.trace[i].res # "rejected") =>
          /\ f.dir = Up => f.count = Cardinality(Range(ledger) \ Range(f.applied))
          /\ f.dir = Down => f.count = Cardinality(Range(f.applied) \ Range(ledger))

\* The contexts ExecMax wraps the errors of its first three steps in.
EarlyFailures ==
  {"failed to ensure migration table", "failed to get applied migrations",
   "failed to find migrations"}

\* A run that returned the error of one of its first three steps returned
\* count 0, with the cause wrapped, and sent no statement and no ledger write;
\* and a run sends these only once it has its plan.
FailsEarly ==
  \A r \in Runs :
    LET f == run[r]
    IN  /\ (f.pc = "done" /\ f.err.ctx \in EarlyFailures) =>
             /\ f.count = 0 /\ f.err.cause # "nil"
             /\ f.trace = <<>> /\ f.toApply = <<>>
        /\ f.trace # <<>> => Planned(f)

\* The order of the first steps of a run: the ledger is read after the
\* create-if-absent, on an existing table, and the plan is made from what
\* was read; each early error is returned from its step.
ReadOrder ==
  \A r \in Runs :
    LET f == run[r]
        g == run'[r]
    IN  /\ (g.pc = "getAppliedMigrations" /\ f.pc # g.pc) => f.pc = "ensureTable"
        /\ (g.pc = "FindMigrations" /\ f.pc # g.pc) =>
             /\ f.pc = "getAppliedMigrations"
             /\ tableExists
             /\ g.applied = OrderByIdAsc(ledger)
        /\ (g.pc = "applyMigration" /\ f.pc # g.pc) =>
             /\ f.pc = "FindMigrations"
             /\ g.applied = f.applied
        /\ (g.pc = "done" /\ f.pc # g.pc /\ g.err.ctx \in EarlyFailures) =>
             /\ ledger' = ledger
             /\ g.err.ctx = "failed to ensure migration table" <=> f.pc = "ensureTable"
             /\ g.err.ctx = "failed to get applied migrations"
                  <=> f.pc = "getAppliedMigrations"
             /\ g.err.ctx = "failed to find migrations" <=> f.pc = "FindMigrations"

KnownTo(s) == Range(Sources[s].ids)

\* Run r is an uncapped Down run that has returned nil, and the run before it
\* was an uncapped Up run with the same source that returned nil.
DownAfterUp(r) ==
  LET f == run[r]
  IN  /\ f.pc = "done" /\ f.err = NoErr /\ f.dir = Down /\ ~(f.max > 0)
      /\ prev.src = f.src /\ prev.dir = Up /\ ~(prev.max > 0) /\ ~prev.failed

\* After Up and then Down the ledger holds no id the source knows.
RoundTrip ==
  \A r \in Runs : DownAfterUp(r) => Range(ledger) \cap KnownTo(run[r].src) = {}

\* No step of a run changes the ledger rows whose id its source does not know.
UnknownRowsKept ==
  \A r \in Runs :
    Active(run[r]) =>
      SelectSeq(ledger', LAMBDA id : id \notin KnownTo(run[r].src))
        = SelectSeq(ledger, LAMBDA id : id \notin KnownTo(run[r].src))

\* C35: Up followed by Down is a round trip on the ledger: from any ledger,
\* after an uncapped Up run and then an uncapped Down run with the same
\* source, both returning no error and with no other writer, the ledger holds
\* no id known to the source, and the rows whose id the source does not know
\* are as they were.
C35_UpDownRoundTrip == []RoundTrip /\ [][UnknownRowsKept]_vars

\* The round trip for the Down runs in which the service rejected no DELETE
\* of a ledger row.
RoundTripUnlessRejected ==
  \A r \in Runs :
    (DownAfterUp(r)
     /\ \A i \in 1..Len(run[r].trace) :
          run[r].trace[i].op = "delete" => run[r].trace[i].res # "rejected") =>
      Range(ledger) \cap KnownTo(run[r].src) = {}

C35_RoundTripUnlessRejected == []RoundTripUnlessRejected /\ [][UnknownRowsKept]_vars

\* A round trip that reverted two migrations and left the row of 2_b, which
\* source A does not know.
RoundTripReached ==
  \E r \in Runs :
    /\ DownAfterUp(r) /\ run[r].src = "A" /\ run[r].count = 2
    /\ ledger = <<"2_b">>

\* Run r has executed every Up statement of migration id and counted it: the
\* service executed each statement, and the record statement came back
\* without an error.
AppliedBy(r, id) ==
  LET t == run[r].trace
  IN  /\ run[r].dir = Up
      /\ \A k \in 1..Len(Migration[id].Up) :
           \E i \in 1..Len(t) : /\ t[i].op = "query" /\ t[i].id = id
                                /\ t[i].q = Migration[id].Up[k] /\ t[i].res = "ok"
      /\ \E i \in 1..Len(t) : t[i].op = "insert" /\ t[i].id = id /\ t[i].res # "err"

\* The Up statements of one migration have been executed twice, and both runs
\* count it as applied.
DoubleApplied == \E id \in DOMAIN Migration : \A r \in Runs : AppliedBy(r, id)

\* C27: the Up statements of one migration are executed twice, with both runs
\* counting it as applied, only when two runs were interleaved; with runs
\* that the callers serialize this does not happen.
C27_DoubleApplyNeedsInterleaving == DoubleApplied => overlap

\* Two interleaved runs have both executed and counted one migration, of
\* which the ledger holds one row.
RaceDoubleApplied ==
  /\ overlap
  /\ \E id \in DOMAIN Migration :
       /\ \A r \in Runs : AppliedBy(r, id)
       /\ Len(SelectSeq(ledger, LAMBDA x : x = id)) = 1

\* Serialized runs apply a migration twice only when the service rejected the
\* record statement of the first.
SerializedDoubleNeedsRejectedRecord ==
  \A id \in DOMAIN Migration :
    ((\A r \in Runs : AppliedBy(r, id)) /\ ~overlap) =>
      \E r \in Runs : \E i \in 1..Len(run[r].trace) :
        /\ run[r].trace[i].op = "insert" /\ run[r].trace[i].id = id
        /\ run[r].trace[i].res = "rejected"

(***************************************************************************)
(* Properties of the cursor.                                               *)
(***************************************************************************)
\* C9: on a cursor over n rows that has not been closed, the k-th call of
\* Next returns true and leaves the cursor on row k - 1 when k <= n, and
\* returns false when k > n; with no rows the first call returns false.  The
\* cursor is before the first row exactly as long as Next has not been called.
C9_NextSequence ==
  /\ current = nextCalls - 1
  /\ (ret.op = "Next" /\ ~closed) =>
        /\ ret.ok = (nextCalls <= Len(rows))
        /\ ret.ok => (current >= 0 /\ current < Len(rows))

\* Next has returned false for the second time or later on a cursor of two or
\* more rows.
C9_Witness ==
  /\ ret.op = "Next" /\ ~closed /\ ~ret.ok
  /\ Len(rows) >= 2
  /\ nextCalls >= Len(rows) + 2

\* C10: Close is idempotent and once Close has been called Scan, StructScan
\* and StructScanAll called with the destination they expect fail with the
\* cursor-closed error, whatever the position was.
C10_ScanAfterCloseFails ==
  /\ closed => rows = <<>>
  /\ (closed /\ ret.op \in {"Scan", "StructScan", "StructScanAll"} /\ dest.kind # "other") =>
        (~ret.ok /\ ret.err = ErrClosed)

\* StructScanAll has returned on a cursor that was not closed, having been
\* given a pointer to a slice.
ScanAllReturned == ret.op = "StructScanAll" /\ dest.kind = "slice" /\ ~closed

\* C11: StructScanAll on a result with no rows, given a slice without
\* elements (nil or not), succeeds and leaves the destination an empty slice
\* that is not nil.
C11_ScanAllEmptyNotNil ==
  (ScanAllReturned /\ Len(rows) = 0 /\ dest.old.elems = <<>>) =>
     (ret.ok /\ dest.val.elems = <<>> /\ ~dest.val.isNil)

\* The records of the rows rs, each scanned into a fresh record.
RecordsOf(rs) == [i \in 1..Len(rs) |-> ScanRecord(rs[i], ZeroRecord).val]

\* The rows from the position at on: all of them for an unstarted cursor.
RowsFrom(at) ==
  LET from == IF at < 0 THEN 0 ELSE at
  IN  IF from < Len(rows) THEN SubSeq(rows, from + 1, Len(rows)) ELSE <<>>

\* C12: when StructScanAll succeeds, the records it has appended are those of
\* the rows from the position the cursor was on when it was called: rows
\* i..n-1 for a cursor on row i, rows 0..n-1 for an unstarted cursor, in row
\* order.
C12_ScanAllFromCurrentPosition ==
  (ScanAllReturned /\ ret.ok) =>
     dest.val.elems = dest.old.elems \o RecordsOf(RowsFrom(ret.at))

\* Scan has returned, having been called on a cursor positioned on a row.
ScanOnRow == ret.op = "Scan" /\ ret.at >= 0 /\ ret.at < Len(rows)

\* C13: Scan on a cursor positioned on a row fails with the arity error and
\* writes no destination when the number of destinations differs from the
\* number of columns; when the numbers are equal, destination i holds the
\* coerced value of column i of the current row, for every i in column order
\* up to the first column whose coercion fails, and Scan succeeds exactly when
\* no coercion fails.
C13_ScanArity ==
  ScanOnRow =>
    LET n == Len(dest.types)
        coerce(i) == convertAssign(dest.types[i],
                                 ColumnValue(rows[ret.at + 1], columns[i]),
                                 dest.old[i])
    IN  IF n # Len(columns)
          THEN /\ ~ret.ok
               /\ ret.err = ErrArity(Len(columns), n)
               /\ dest.val = dest.old
          ELSE /\ ret.ok = (\A i \in 1..n : coerce(i).err = "nil")
               /\ \A i \in 1..n :
                    (\A j \in 1..i : coerce(j).err = "nil") => dest.val[i] = coerce(i).val

\* Scan was given three destinations holding preset values on a row of two
\* columns.
C13_Witness ==
  /\ ScanOnRow
  /\ Len(dest.types) = 3 /\ Len(columns) = 2
  /\ dest.old[1] = Preset(dest.types[1])
  /\ ~ret.ok

\* C18: StructScan resolves field ID to column id (its db tag) and field Name
\* to column name (its lower-cased name); a field whose column the current
\* row lacks keeps the value it had, a field whose column the row has holds
\* the coerced value when the call succeeds, and the call fails only when the
\* coercion of a column some field resolves to fails: columns matching no
\* field are ignored.
C18_StructScanFrame ==
  (ret.op = "StructScan" /\ dest.kind = "record" /\ ret.at >= 0 /\ ret.at < Len(rows)) =>
    LET row == rows[ret.at + 1]
        col == [ID |-> "id", Name |-> "name"]
        coerce(f) == convertAssign(FieldType[f], row[col[f]], dest.old[f])
    IN  /\ \A f \in DOMAIN col :
             col[f] \notin DOMAIN row => dest.val[f] = dest.old[f]
        /\ \A f \in DOMAIN col :
             (col[f] \in DOMAIN row /\ ret.ok) => dest.val[f] = coerce(f).val
        /\ ~ret.ok => \E f \in DOMAIN col : col[f] \in DOMAIN row /\ coerce(f).err # "nil"

\* StructScan into a record holding preset values has succeeded on a row that
\* lacks column name and has a column no field resolves to.
C18_Witness ==
  /\ ret.op = "StructScan" /\ dest.kind = "record" /\ ret.ok
  /\ ret.at >= 0 /\ ret.at < Len(rows)
  /\ DOMAIN rows[ret.at + 1] = {"id", "extra"}
  /\ dest.old = PresetRecord
  /\ dest.val = [ID |-> GoInt("int", -2), Name |-> Str("old")]

\* C22: no cursor operation panics: every call of Scan, StructScan and
\* StructScanAll returns, with nil or with an error value, also StructScan
\* into a record with an unexported field whose lower-cased name is a column
\* of the row.
C22_NoPanic == ret.err # PanicUnexported

\* StructScan into the record with the unexported field returns, with nil or
\* an error, on every row that lacks the column of that field or whose id
\* fails to convert.
StructScanUnexportedReturns ==
  (ret.op = "StructScan" /\ dest.kind = "unexported" /\ ret.at >= 0 /\ ret.at < Len(rows)
     /\ ret.err = PanicUnexported)
    => /\ "name" \in DOMAIN rows[ret.at + 1]
       /\ "id" \in DOMAIN rows[ret.at + 1] =>
            convertAssign("int", rows[ret.at + 1]["id"], dest.old.ID).err = "nil"

(***************************************************************************)
(* Properties of the coercion.                                             *)
(***************************************************************************)
\* A string is a base-10 integer when it is an optional sign followed by one
\* or more decimal digits and nothing else.
Base10Digits(s) ==
  LET b == WireBytes[s]
  IN  IF Len(b) > 0 /\ b[1] \in {43, 45} THEN Tail(b) ELSE b

IsBase10Integer(s) ==
  /\ Len(Base10Digits(s)) > 0
  /\ \A i \in 1..Len(Base10Digits(s)) : Base10Digits(s)[i] \in 48..57

Base10Value(s) ==
  IF WireBytes[s][1] = 45 THEN -Atoi(Base10Digits(s)) ELSE Atoi(Base10Digits(s))

\* The errors Scan can return for the columns whose destination has a kind
\* of the coercion table.
RegisteredColumnErrors ==
  { "sql: Scan error on column index " \o ToString(i - 1) \o ", name \""
      \o columns[i] \o "\": "
      \o convertAssign(dest.types[i], ColumnValue(rows[current + 1], columns[i]),
                       dest.old[i]).err :
      i \in {j \in 1..Len(columns) : dest.types[j] \notin UnregisteredKinds} }

\* C32: a destination whose kind is not in the coercion table (here a
\* *time.Time or a *[]byte) holds after Scan and after StructScan the value it
\* held before, whatever the wire value, and the call returns no error for
\* that column or field: its error, if any, is the closed-cursor error, the
\* arity error or the conversion error of another column or field.
C32_UnregisteredKindUntouched ==
  /\ (ret.op = "Scan" /\ dest.kind = "values") =>
        /\ \A i \in 1..Len(dest.types) :
              dest.types[i] \in UnregisteredKinds => dest.val[i] = dest.old[i]
        /\ (\E i \in 1..Len(dest.types) : dest.types[i] \in UnregisteredKinds) =>
              \/ ret.err \in {"nil", ErrClosed, ErrArity(Len(columns), Len(dest.types))}
              \/ /\ current >= 0 /\ current < Len(rows)
                 /\ Len(dest.types) = Len(columns)
                 /\ ret.err \in RegisteredColumnErrors
  /\ (ret.op = "StructScan" /\ dest.kind = "unregistered") =>
        /\ dest.val.Name = dest.old.Name
        /\ \/ ret.err \in {"nil", ErrClosed}
           \/ /\ current >= 0 /\ current < Len(rows)
              /\ "id" \in DOMAIN rows[current + 1]
              /\ ret.err = "sql: StructScan error on field ID: "
                             \o convertAssign("int", rows[current + 1]["id"],
                                              dest.old.ID).err

\* StructScan has returned nil on a row with a name, with the time.Time field
\* still holding its preset value and field ID assigned.
C32_Witness ==
  /\ ret.op = "StructScan" /\ dest.kind = "unregistered" /\ ret.err = "nil"
  /\ current >= 0 /\ current < Len(rows)
  /\ "name" \in DOMAIN rows[current + 1]
  /\ rows[current + 1]["name"] = Str("ann")
  /\ dest.old.Name = Preset("time.Time")
  /\ dest.val.Name = Preset("time.Time")
  /\ dest.val.ID = GoInt("int", 1)

\* Scan has returned nil with a *time.Time destination for a column that
\* holds a number, and the destination holds its preset value.
C32_ScanReached ==
  /\ ret.op = "Scan" /\ ret.err = "nil" /\ dest.kind = "values"
  /\ dest.types = <<"time.Time", "int">>
  /\ current >= 0 /\ current < Len(rows)
  /\ ColumnValue(rows[current + 1], columns[1]).t = "float64"
  /\ dest.val[1] = Preset("time.Time")

\* C16: coercing a string into an integer destination of any width yields
\* the integer the string denotes in base 10 when it denotes one, and
\* otherwise fails with a conversion error and leaves the destination as it
\* was.
C16_StringToInteger ==
  (conv.done /\ conv.kind \in IntKinds /\ conv.src.t = "string") =>
     IF IsBase10Integer(conv.src.s)
       THEN conv.err = "nil" /\ conv.val = GoInt(conv.kind, Base10Value(conv.src.s))
       ELSE conv.err # "nil" /\ conv.val = conv.old

\* The integer nearest to tenths/10 among those not further from zero.
TowardZero(tenths) ==
  CHOOSE q \in -100..100 :
    IF tenths >= 0 THEN 10 * q <= tenths /\ tenths < 10 * (q + 1)
                   ELSE 10 * q >= tenths /\ tenths > 10 * (q - 1)

\* C17: for an integer destination of any width, whatever it held before, a
\* null yields 0 and a number yields its truncation toward zero.
C17_NullAndNumberToInteger ==
  (conv.done /\ conv.kind \in IntKinds) =>
     /\ conv.src.t = "nil" => (conv.err = "nil" /\ conv.val = GoInt(conv.kind, 0))
     /\ conv.src.t = "float64" =>
          (conv.err = "nil" /\ conv.val = GoInt(conv.kind, TowardZero(conv.src.n)))

(***************************************************************************)
(* Properties of the response envelope.                                    *)
(***************************************************************************)
\* The envelope is successful and its result holds a rows list and either no
\* columns field or a list of names.
HasRowsList ==
  /\ resp.success
  /\ resp.result.kind = "array" /\ Len(resp.result.items) > 0
  /\ resp.result.items[1].kind = "map"
  /\ resp.result.items[1].results.kind = "map"
  /\ resp.result.items[1].results.rows.kind = "array"
  /\ LET cols == resp.result.items[1].results.columns
     IN  cols.kind = "array" => \A i \in 1..Len(cols.items) : cols.items[i].t = "string"

WireRows == resp.result.items[1].results.rows.items

\* N, the length of the column list: 0 when the envelope has none.
ColumnListLen ==
  IF resp.result.items[1].results.columns.kind = "array"
    THEN Len(resp.result.items[1].results.columns.items) ELSE 0

\* C14: for a column list of length N, ToRows fails at the first positional
\* row whose length differs from N with an error naming the row index, the
\* length of the row and N (unless a row before it is neither an object nor
\* an array), and accepts the rows otherwise; after ToRows, a Scan that
\* succeeds on a row that came as an array yields, for every index i, the
\* value at index i of that array.
C14_PositionalRows ==
  /\ (ret.op = "ToRows" /\ HasRowsList) =>
        LET odd == {i \in 1..Len(WireRows) : WireRows[i].kind \notin {"map", "array"}}
            wide == {i \in 1..Len(WireRows) :
                       WireRows[i].kind = "array" /\ Len(WireRows[i].val) # ColumnListLen}
        IN  /\ (odd = {} /\ wide = {}) => ret.ok
            /\ (wide # {} /\ \A i \in odd : \E j \in wide : j < i) =>
                  /\ ~ret.ok
                  /\ \E j \in wide :
                       /\ \A k \in wide : j <= k
                       /\ ret.err = "row " \o ToString(j - 1) \o " has "
                                      \o ToString(Len(WireRows[j].val))
                                      \o " values but expected "
                                      \o ToString(ColumnListLen) \o " columns"
  /\ (ret.op = "Scan" /\ ret.ok /\ hasRows /\ HasRowsList) =>
        (WireRows[ret.at + 1].kind = "array" =>
           \A i \in 1..Len(WireRows[ret.at + 1].val) :
              dest.val[i] = WireRows[ret.at + 1].val[i])

\* The same for column lists without a repeated name.
PositionalRowsUniqueNames ==
  (HasRowsList /\ Cardinality(Range(columns)) = Len(columns)) => C14_PositionalRows

\* C15: on an envelope with success=false ToRows, ToResult, Get and
\* StructScanAll fail with the API error, whatever the result holds: the error
\* carries the first message of the error list, or "unknown" when the list is
\* empty; no cursor and no Result is returned and the destination is as it
\* was.
C15_FailureEnvelope ==
  (ret.op \in {"ToRows", "ToResult", "Get", "APIResponse.StructScanAll"} /\ ~resp.success) =>
     /\ ~ret.ok
     /\ ret.err = IF resp.errors # <<>> THEN "api error: " \o resp.errors[1]
                                       ELSE "api error: unknown"
     /\ ~hasRows
     /\ result.isNil
     /\ dest.val = dest.old

\* ToResult has returned on a failure envelope that lists two errors and
\* holds a well-formed result with a meta block.
C15_Witness ==
  /\ ret.op = "ToResult" /\ ~resp.success
  /\ Len(resp.errors) = 2
  /\ resp.result.kind = "array" /\ Len(resp.result.items) = 1
  /\ resp.result.items[1].meta.kind = "map"

\* C19: when the envelope normalizes, Get advances its cursor exactly once;
\* with no row it fails with the no-rows error and the destination is as it
\* was, and otherwise the destination record is the one it was with row 0
\* scanned into it, whatever the rows after row 0 hold.
C19_GetFirstRow ==
  (ret.op = "Get" /\ ToRows(resp).err = "nil") =>
     /\ nextCalls = 1 /\ current = 0
     /\ IF Len(ToRows(resp).rows) = 0
          THEN ~ret.ok /\ ret.err = ErrNoRows /\ dest.val = dest.old
        ELSE IF dest.kind = "record"
          THEN LET s == ScanRecord(ToRows(resp).rows[1], dest.old)
               IN  dest.val = s.val /\ ret.ok = (s.err = "nil")
        ELSE ~ret.ok /\ ret.err = ErrNotStruct

\* Get has succeeded on a result of two rows that differ, into a record that
\* held preset values.
C19_Witness ==
  /\ ret.op = "Get" /\ ret.ok
  /\ ToRows(resp).err = "nil"
  /\ Len(ToRows(resp).rows) = 2
  /\ ToRows(resp).rows[1] # ToRows(resp).rows[2]
  /\ dest.old = PresetRecord /\ dest.val # dest.old

(***************************************************************************)
(* The result summary read from the meta block.                            *)
(***************************************************************************)
\* The meta block of the envelope when ToResult gets as far as reading it.
MetaOf(r) == r.result.items[1].meta

HasMeta(r) ==
  /\ r.success /\ r.result.kind = "array" /\ Len(r.result.items) > 0
  /\ r.result.items[1].kind = "map" /\ MetaOf(r).kind = "map"

\* A meta entry supplies a count when it is present and a number.
SuppliesCount(meta, key) == key \in DOMAIN meta /\ meta[key].t = "float64"

\* The count an entry supplies: the whole part of its number.
CountOf(meta, key) ==
  IF SuppliesCount(meta, key)
    THEN CHOOSE q \in -200..200 :
           IF meta[key].n >= 0 THEN 10 * q <= meta[key].n /\ meta[key].n < 10 * (q + 1)
                               ELSE 10 * q >= meta[key].n /\ meta[key].n > 10 * (q - 1)
    ELSE 0

\* C21: ToResult on a successful envelope reports last_row_id as the
\* last-inserted id and the count of meta.changes as the affected rows, the
\* count of meta.rows_written when changes supplies none; an empty result
\* list or a first item without a meta block gives (0, 0).
C21_ToResultMeta ==
  (ret.op = "ToResult" /\ resp.success /\ resp.result.kind = "array")
    => /\ Len(resp.result.items) = 0 => ret.ok /\ result = NewResult(0, 0)
       /\ (Len(resp.result.items) > 0 /\ resp.result.items[1].kind = "map"
             /\ MetaOf(resp).kind # "map")
            => ret.ok /\ result = NewResult(0, 0)
       /\ HasMeta(resp)
            => /\ ret.ok
               /\ result.lastInsertId = CountOf(MetaOf(resp).val, "last_row_id")
               /\ result.rowsAffected =
                    IF SuppliesCount(MetaOf(resp).val, "changes")
                      THEN CountOf(MetaOf(resp).val, "changes")
                      ELSE CountOf(MetaOf(resp).val, "rows_written")

\* The same with rows_written used only when the changes entry is missing:
\* this is what the code does.
ToResultMetaAsCoded ==
  (ret.op = "ToResult" /\ HasMeta(resp))
    => /\ ret.ok
       /\ result.lastInsertId = CountOf(MetaOf(resp).val, "last_row_id")
       /\ result.rowsAffected =
            IF "changes" \in DOMAIN MetaOf(resp).val
              THEN CountOf(MetaOf(resp).val, "changes")
              ELSE CountOf(MetaOf(resp).val, "rows_written")

(***************************************************************************)
(* Properties of the client and the pool.                                  *)
(***************************************************************************)
\* C25: NewClient returns nil when the account id or the token is empty and
\* otherwise a client holding the given account id and token and no database
\* id; the account id and the token stay as given, and as long as no
\* ConnectDB has succeeded Query, CreateTable and RemoveTable return the
\* no-database-connected error and send no request.
C25_NewClient ==
  /\ cret.op = "NewClient" =>
       IF cret.args[1] = "" \/ cret.args[2] = ""
         THEN client.isNil
         ELSE client = [isNil |-> FALSE, AccountID |-> cret.args[1],
                        APIToken |-> cret.args[2], DatabaseID |-> ""]
  /\ ~client.isNil => client.AccountID = "acc" /\ client.APIToken = "tok"
  /\ (~client.isNil /\ lastConn = NoConn) =>
       /\ client.DatabaseID = ""
       /\ cret.op \in ClientOps => cret.err = ErrNoDatabase /\ cret.db = ""

\* Query has failed on a client no ConnectDB has succeeded on, with a
\* database of the account to connect to.
C25_Witness ==
  /\ ~client.isNil /\ lastConn = NoConn /\ service # {}
  /\ cret.op = "Query" /\ cret.err = ErrNoDatabase

\* A step of QueryDB, CreateTableDB or RemoveTableDB leaves the current
\* database as it is.
NamedKeepsCurrent == cret'.op \in NamedOps => pool'.currentDB = pool.currentDB

\* After a successful Connect or ConnectWithID the name is the current
\* database; Query goes to the database of the last successful connect.
CurrentIsLastConnect ==
  /\ (cret.op \in {"Connect", "ConnectWithID"} /\ cret.err = "nil")
       => pool.currentDB = cret.args[1] /\ lastConn.name = cret.args[1]
  /\ (cret.op = "Query" /\ lastConn # NoConn)
       => cret.db = lastConn.id /\ cret.err # ErrNoCurrent

\* C23: a successful Connect(name) or ConnectWithID(name, id) makes name the
\* current database, from the cache as well as fetched; QueryDB,
\* CreateTableDB and RemoveTableDB leave the current database unchanged; Query
\* targets the database of the last successful Connect or ConnectWithID.
C23_CurrentDatabase == []CurrentIsLastConnect /\ [][NamedKeepsCurrent]_vars

\* Query has gone to the database connected last while the pool holds
\* another database under a different id.
C23_Witness ==
  /\ cret.op = "Query" /\ cret.err = "nil" /\ cret.db = lastConn.id
  /\ \E n \in DOMAIN pool.connections :
       n # lastConn.name /\ pool.connections[n].DatabaseID # lastConn.id

\* What a call of Connect leaves of the pool.
ConnectKeeps ==
  cret'.op = "Connect" =>
    /\ cret'.err # "nil" => pool' = pool
    /\ \A n \in DOMAIN pool.connections :
         Age(pool.connections[n]) < pool.maxCacheAge =>
           /\ n \in DOMAIN pool'.connections
           /\ pool'.connections[n] = pool.connections[n]

\* C36: a Connect that fails leaves the pool as it was: the cache entries,
\* an expired entry for the same name included, and the current database
\* are those before the call; and Connect never replaces a cached entry that
\* is still valid.
C36_FailedConnectKeepsPool == [][ConnectKeeps]_vars

\* Connect has failed for a name whose entry has expired, while another
\* database is current: the entry is still cached.
C36_Witness ==
  /\ cret.op = "Connect" /\ cret.err # "nil"
  /\ cret.args[1] \in DOMAIN pool.connections
  /\ ~(Age(pool.connections[cret.args[1]]) < pool.maxCacheAge)
  /\ pool.currentDB # cret.args[1]
  /\ pool.currentDB \in DOMAIN pool.connections

\* C30: every use of a cache entry compares its age with the maximum age at
\* the time of the lookup: Connect, IsCached and the query operations use as
\* valid no entry whose age is at or beyond the maximum age, and with a
\* maximum age of 0 every Connect fetches from the service.
C30_LazyExpiry ==
  /\ cret.used => ~cret.stale
  /\ (cret.op = "Connect" /\ pool.maxCacheAge = 0) => ~cret.used

\* The same for Connect and IsCached alone.
ExpiryOnConnect ==
  /\ (cret.op \in {"Connect", "IsCached"} /\ cret.used) => ~cret.stale
  /\ (cret.op = "Connect" /\ pool.maxCacheAge = 0) => ~cret.used

(***************************************************************************)
(* Properties of the parameter conversion.                                 *)
(***************************************************************************)
\* The texts of the values of ArgPool that are not strings, integers,
\* booleans or nil: the time layout, fmt's %v of a float, encoding/json's
\* text of a float, of a byte slice (base64 in quotes) and of the other
\* types.
TimeText(at) ==
  IF at = <<2024, 1, 5, 9, 3, 7>> THEN "2024-01-05 09:03:07" ELSE "0987-12-31 23:59:59"

FloatText(tenths) ==
  CASE tenths = 255 -> "25.5"
    [] tenths = 10000000 -> "1e+06"
    [] tenths = -12500000 -> "-1.25e+06"

JSONText(arg) ==
  CASE arg.t \in FloatTypes /\ arg.n = 255 -> "25.5"
    [] arg.t \in FloatTypes /\ arg.n = 10000000 -> "1000000"
    [] arg.t \in FloatTypes /\ arg.n = -12500000 -> "-1250000"
    [] arg.t = "[]uint8" -> "\"YWI=\""
    [] arg.t = "[]int" -> "[1,-2]"
    [] arg.t = "map[string]int" -> "{\"a\":1}"
    [] arg.t = "*int" -> "null"

HasJSON(arg) == arg.t # "chan int"

\* The string the listed types convert to.
ListedText(arg) ==
  CASE arg.t = "string" -> arg.s
    [] arg.t \in SignedTypes \cup UnsignedTypes -> ToString(arg.n)
    [] arg.t = "bool" -> IF arg.n = 1 THEN "1" ELSE "0"
    [] arg.t = "nil" -> ""
    [] arg.t = "time.Time" -> TimeText(arg.v)

Listed(arg) ==
  arg.t \in {"string", "bool", "nil", "time.Time"} \cup SignedTypes \cup UnsignedTypes

\* The first argument of a type without a JSON encoding, or 0.
FirstUnencodable(args) ==
  IF \E i \in 1..Len(args) : ~Listed(args[i]) /\ ~HasJSON(args[i])
    THEN CHOOSE i \in 1..Len(args) :
           /\ ~Listed(args[i]) /\ ~HasJSON(args[i])
           /\ \A j \in 1..(i - 1) : Listed(args[j]) \/ HasJSON(args[j])
    ELSE 0

\* The claim as stated: one string per argument in argument order, strings
\* unchanged, integers in decimal, booleans as 1 and 0, nil as the empty
\* string, times in the layout, and every other type (floats and byte slices
\* among them) as its JSON encoding or an error naming the argument index.
C24_ConvertParams_AsStated ==
  params.done =>
    LET args == params.args
        k == FirstUnencodable(args)
    IN  IF k > 0
          THEN /\ params.err = ErrConvertParam(k - 1, args[k].t,
                                               "json: unsupported type: " \o args[k].t)
               /\ params.isNil
          ELSE /\ params.err = "nil" /\ ~params.isNil
               /\ Len(params.out) = Len(args)
               /\ \A i \in 1..Len(args) :
                    params.out[i] = IF Listed(args[i]) THEN ListedText(args[i])
                                    ELSE JSONText(args[i])

\* C24: ConvertParams returns one string per argument, in argument order (an
\* empty non-nil list for no arguments): strings unchanged, integers in
\* decimal, booleans as 1 and 0, nil as the empty string, times in the layout
\* 2006-01-02 15:04:05, floats as fmt's %v writes them, a byte slice as the
\* string of its bytes, and any other type as its JSON encoding or, when it
\* has none, an error naming the index of the argument and no list.
C24_ConvertParams ==
  params.done =>
    LET args == params.args
        k == FirstUnencodable(args)
    IN  IF k > 0
          THEN /\ params.err = ErrConvertParam(k - 1, args[k].t,
                                               "json: unsupported type: " \o args[k].t)
               /\ params.isNil
          ELSE /\ params.err = "nil" /\ ~params.isNil
               /\ Len(params.out) = Len(args)
               /\ \A i \in 1..Len(args) :
                    params.out[i] =
                      IF Listed(args[i]) THEN ListedText(args[i])
                      ELSE IF args[i].t \in FloatTypes THEN FloatText(args[i].n)
                      ELSE IF args[i].t = "[]uint8" THEN args[i].s
                      ELSE JSONText(args[i])

\* Two arguments of different kinds have been converted, a float in exponent
\* notation among them.
C24_Witness ==
  /\ params.done /\ params.err = "nil"
  /\ Len(params.args) = 2
  /\ params.args[1].t = "float64" /\ params.args[2].t = "time.Time"
  /\ params.out = <<"1e+06", "2024-01-05 09:03:07">>

\* C28: on every cursor ToRows produces the columns are a sequence of unique
\* names and the keys of every row are among the columns, for rows that came
\* as objects and rows that came as arrays, with and without a columns list in
\* the envelope.
C28_ColumnSet ==
  hasRows =>
    /\ NoDuplicates(columns)
    /\ \A i \in 1..Len(rows) : DOMAIN rows[i] \subseteq Range(columns)

\* The same for results whose rows all came as arrays under a columns list
\* without a repeated name: each row has exactly the columns as its keys.
ColumnSetOfPositionalRows ==
  (/\ hasRows /\ HasRowsList /\ ColumnListLen > 0
   /\ \A i \in 1..Len(WireRows) : WireRows[i].kind = "array"
   /\ NoDuplicates(StringEntries(resp.result.items[1].results.columns.items))) =>
    /\ NoDuplicates(columns)
    /\ \A i \in 1..Len(rows) : DOMAIN rows[i] = Range(columns)

(***************************************************************************)
(* Properties of the parser.                                               *)
(***************************************************************************)
AllLines == ScanLines(parser.text)

IsUpLine(l) == HasPrefix(l, DirectiveUp)
IsDownLine(l) == ~IsUpLine(l) /\ HasPrefix(l, DirectiveDown)
IsSectionLine(l) == IsUpLine(l) \/ IsDownLine(l)
IsTextLine(l) ==
  /\ ~IsSectionLine(l)
  /\ ~HasPrefix(l, DirectiveStatementBegin)
  /\ ~HasPrefix(l, DirectiveStatementEnd)

Last(S) == CHOOSE i \in S : \A j \in S : j <= i

\* The elements of a set of numbers in increasing order.
RECURSIVE Increasing(_)
Increasing(S) == IF S = {} THEN <<>> ELSE <<First(S)>> \o Increasing(S \ {First(S)})

RECURSIVE Flatten(_)
Flatten(ss) == IF Len(ss) = 0 THEN <<>> ELSE Head(ss) \o Flatten(Tail(ss))

\* The points where the buffer is flushed: the section directives and the end
\* of input.
FlushPoints(ls) ==
  {i \in 1..Len(ls) : IsSectionLine(ls[i])} \cup {Len(ls) + 1}

\* The section that is active just before line b: that of the last section
\* directive before it, Up when there is none.
ActiveBefore(ls, b) ==
  LET D == {j \in 1..(b - 1) : IsSectionLine(ls[j])}
  IN  IF D = {} THEN Up ELSE IF IsUpLine(ls[Last(D)]) THEN Up ELSE Down

\* The text buffered when line b is reached: the text lines since the last
\* flush point, joined by newlines.
BufferedAt(ls, b) ==
  LET a == Last({0} \cup {j \in FlushPoints(ls) : j < b})
      at == Increasing({i \in (a + 1)..(b - 1) : IsTextLine(ls[i])})
  IN  Flatten([k \in 1..Len(at) |->
                 (IF k > 1 THEN <<"\n">> ELSE <<>>) \o ls[at[k]]])

\* The fragments of a text: it is cut at each ';', each piece loses its
\* leading and trailing white space, and the empty ones are dropped.
Fragments(t) ==
  LET cuts == Increasing({0} \cup {i \in 1..Len(t) : t[i] = ";"} \cup {Len(t) + 1})
      piece(k) == SubSeq(t, cuts[k] + 1, cuts[k + 1] - 1)
      trimmed(k) ==
        LET ink == {i \in 1..Len(piece(k)) : piece(k)[i] \notin WhiteSpace}
        IN  IF ink = {} THEN <<>> ELSE SubSeq(piece(k), First(ink), Last(ink))
      kept == Increasing({k \in 1..(Len(cuts) - 1) : trimmed(k) # <<>>})
  IN  [n \in 1..Len(kept) |-> trimmed(kept[n])]

\* The statements of a section: the fragments of what was buffered at each
\* flush point where the section was active, in source order.
StatementsOf(ls, dir) ==
  LET pts == Increasing({b \in FlushPoints(ls) : ActiveBefore(ls, b) = dir})
  IN  Flatten([k \in 1..Len(pts) |-> Fragments(BufferedAt(ls, pts[k]))])

RECURSIVE Concat(_)
Concat(cs) == IF Len(cs) = 0 THEN "" ELSE Head(cs) \o Concat(Tail(cs))

IsStatementLine(l) ==
  /\ ~IsSectionLine(l)
  /\ HasPrefix(l, DirectiveStatementBegin) \/ HasPrefix(l, DirectiveStatementEnd)

\* What the parser does with the line it reads next.
LineEffect ==
  (parser.pc = "scan" /\ Len(parser.rest) > 0) =>
    LET line == Head(parser.rest)
    IN  /\ parser'.rest = Tail(parser.rest)
        /\ IsStatementLine(line) =>
              /\ parser'.buf = parser.buf
              /\ parser'.currentDirection = parser.currentDirection
              /\ parser'.p = parser.p
        /\ IsUpLine(line) =>
              /\ parser'.p.DisableTransactionUp =
                    (parser.p.DisableTransactionUp \/ Contains(line, NoTransaction))
              /\ parser'.p.DisableTransactionDown = parser.p.DisableTransactionDown
        /\ IsDownLine(line) =>
              /\ parser'.p.DisableTransactionDown =
                    (parser.p.DisableTransactionDown \/ Contains(line, NoTransaction))
              /\ parser'.p.DisableTransactionUp = parser.p.DisableTransactionUp
        /\ IsTextLine(line) =>
              /\ parser'.buf = IF parser.buf = <<>> THEN line
                               ELSE parser.buf \o <<"\n">> \o line
              /\ parser'.currentDirection = parser.currentDirection
              /\ parser'.p = parser.p

\* "-- +migrate Up", "-- +migrate StatementBegin", "a; b;",
\* "-- +migrate StatementEnd", each ended by a newline.
BlockText ==
  Unlines(<<DirectiveUp, DirectiveStatementBegin, <<"a", ";", " ", "b", ";">>,
            DirectiveStatementEnd>>, TRUE)

\* A statement block is split like any other text.
BlockIsSplit ==
  (parser.pc = "done" /\ parser.text = BlockText) =>
    /\ parser.m.Up = << <<"a">>, <<"b">> >>
    /\ parser.m.Down = <<>>

\* C33: in ParseMigration a StatementBegin or StatementEnd line is dropped:
\* it changes neither the buffer, the active section nor the lists, and the
\* text between the two is split on ';' like any other; a notransaction token
\* on an Up line sets the Up flag and leaves the Down flag, on a Down line it
\* sets the Down flag and leaves the Up flag; every other line is appended to
\* the buffer of the active section, after a newline when the buffer holds
\* text.
C33_LineEffects == []BlockIsSplit /\ [][LineEffect]_vars

\* ParseMigration has returned for the text with a statement block.
C33_Witness ==
  /\ parser.pc = "done" /\ parser.text = BlockText
  /\ Len(parser.m.Up) = 2

\* A statement as appendStatement leaves it: not empty, no white space at
\* either end, no ';'.
IsCleanStatement(stmt) ==
  /\ stmt # <<>>
  /\ stmt[1] \notin WhiteSpace
  /\ stmt[Len(stmt)] \notin WhiteSpace
  /\ \A i \in 1..Len(stmt) : stmt[i] # ";"

\* The fragments of the text that precedes the first Up or Down directive.
LeadingFragments ==
  LET ls == AllLines
  IN  Fragments(BufferedAt(ls, First(FlushPoints(ls))))

\* C34: for every text, when ParseMigration returns every statement of the
\* Up and the Down list is non-empty, has no white space at either end and
\* holds no ';'; the text before the first directive is at the head of the Up
\* list; and the error returned is nil.
C34_CleanStatements ==
  parser.pc = "done" =>
    /\ \A i \in 1..Len(parser.m.Up) : IsCleanStatement(parser.m.Up[i])
    /\ \A i \in 1..Len(parser.m.Down) : IsCleanStatement(parser.m.Down[i])
    /\ LET leading == LeadingFragments
       IN  /\ Len(parser.m.Up) >= Len(leading)
           /\ SubSeq(parser.m.Up, 1, Len(leading)) = leading
    /\ parser.err = "nil"

\* ParseMigration has returned for a text that starts with "a; b;" followed
\* by a Down directive and more statements: the Up list is a, b.
C34_Witness ==
  /\ parser.pc = "done"
  /\ Len(AllLines) = 3
  /\ AllLines[1] = <<"a", ";", " ", "b", ";">>
  /\ AllLines[2] = DirectiveDown
  /\ AllLines[3] = <<"a", ";", " ", "b", ";">>
  /\ parser.m.Up = << <<"a">>, <<"b">> >>
  /\ parser.m.Down = << <<"a">>, <<"b">> >>

\* C20: when ParseMigration returns, the Up list holds, in source order, the
\* fragments of the text buffered at each flush point (Up or Down directive,
\* end of input) before which the Up section was active, and the Down list
\* those buffered while the Down section was active; the example text with id
\* 1_init gives Up = ["CREATE TABLE t(x)"] and Down = ["DROP TABLE t"].
C20_FlushIntoActiveSection ==
  parser.pc = "done" =>
    /\ LET ls == AllLines
       IN  /\ parser.m.Up = StatementsOf(ls, Up)
           /\ parser.m.Down = StatementsOf(ls, Down)
    /\ parser.text = ExampleText =>
         /\ parser.m.Id = "1_init"
         /\ [i \in 1..Len(parser.m.Up) |-> Concat(parser.m.Up[i])] = <<"CREATE TABLE t(x)">>
         /\ [i \in 1..Len(parser.m.Down) |-> Concat(parser.m.Down[i])] = <<"DROP TABLE t">>

\* ParseMigration has returned for the example text.
C20_Witness == parser.pc = "done" /\ parser.text = ExampleText

\* The current database has a cache entry exactly when a connect succeeded
\* and neither ClearAllCache nor ClearCache of that database came after it,
\* and the entry then holds the name and the id of that connect.
ConnectedIffMapped ==
  IF lastConn = NoConn
    THEN pool.currentDB \notin DOMAIN pool.connections
    ELSE /\ pool.currentDB = lastConn.name
         /\ pool.currentDB \in DOMAIN pool.connections
         /\ pool.connections[pool.currentDB].DatabaseID = lastConn.id

\* A query operation that returns: it fails with the not-connected error
\* when no connect stood at its read of the pool, and else its request goes
\* to the id of the one connect that stood then, whose name it read.
QueryUsesOneConnect ==
  \A g \in Goroutines :
    (inflight[g].pc = "unlocked" /\ inflight'[g].pc = "idle") =>
      LET f == inflight[g]
      IN  IF f.conn = NoConn
            THEN cret'.err = ErrNoCurrent /\ cret'.db = ""
            ELSE /\ cret'.err # ErrNoCurrent
                 /\ cret'.db = f.conn.id
                 /\ f.name = f.conn.name

\* C38: under any interleaving of the operations of a pool called from
\* several goroutines, a query operation uses the database id that was mapped
\* to the current database at the one instant of its read (the name and the
\* id of one connect, never the name of one and the id of another), and a read
\* that comes after ClearAllCache, or after ClearCache of the current
\* database, with no successful connect in between makes the operation fail
\* with the not-connected error.
C38_QueryReadsOneInstant == []ConnectedIffMapped /\ [][QueryUsesOneConnect]_vars

\* A query operation has sent its request to users_db, which was current
\* when it read the pool, after another goroutine connected to products_db and
\* cleared the entry of users_db.
C38_Witness ==
  /\ cret.op \in SharedOps /\ cret.err = "nil" /\ cret.db = "uuid-1"
  /\ pool.currentDB = "products_db"
  /\ DOMAIN pool.connections = {"products_db"}
  /\ pool.connections["products_db"].DatabaseID = "uuid-2"
  /\ lastConn = [name |-> "products_db", id |-> "uuid-2"]

\* A query operation has failed with the not-connected error after
\* ClearCache of the current database, whose name the pool still holds.
C38_NotConnectedReached ==
  /\ cret.op \in SharedOps /\ cret.err = ErrNoCurrent
  /\ pool.currentDB = "users_db"
  /\ \A g \in Goroutines : inflight[g].pc = "idle"
====
